---- MODULE Spec2Model ----
(***************************************************************************)
(* Conversation turn orchestrator of assistant-client-js: AssistantAI      *)
(* (sendMessage, streamMessage, init), the conversation and message        *)
(* repositories, and the personality cache as far as the turns use it.     *)
(* A turn advances by the awaits of the code, so that consumer requests    *)
(* and the other public operations interleave as the event loop lets them  *)
(* (the read-only lookups of MessageRepository.create are taken with its   *)
(* insert, the knowledge search with the history read).  A collaborator    *)
(* call (database, model) may fail at any step.                            *)
(* In Spec the turns run one after another, up to MaxTurns in all, while   *)
(* the consumer of a stream, the other public operations and the expiry of *)
(* the personality cache interleave with the steps of the running turn.    *)
(* SearchSpec is the knowledge search by itself (KnowledgeService.search   *)
(* and AssistantAI.searchKnowledge over KnowledgeRepository): a store      *)
(* drawn from a catalogue of items, and every request against it.          *)
(* PersonalitySpec is the personality service by itself (getPersonality,   *)
(* buildPersonality, setPersonality over SimpleCache and                   *)
(* PersonalityRepository), with the rows and the cache entry in full, a    *)
(* clock, and calls that may overlap at their awaits.                      *)
(* OneTurnSpec is one turn in full over a store that may hold a long       *)
(* conversation and knowledge items, the call with or without a context,   *)
(* and getConversation; the calls of a turn in Spec give no context and    *)
(* find no knowledge item, so that a failure inside the knowledge search   *)
(* changes nothing there and is drawn in OneTurnSpec.  CosineSpec applies  *)
(* cosineSimilarity to every pair of a small set of values.  ItemsSpec is  *)
(* the writing of knowledge items (createItem, updateItem, deleteItem),    *)
(* with the content and the embedding of each row.  OverlapSpec runs turns *)
(* that overlap on one stored conversation, a later turn arriving while an *)
(* earlier one waits for its history read or for its count update.         *)
(***************************************************************************)
EXTENDS Integers, Sequences, FiniteSets, TLC

\* Bounds of the model.
MaxTurns == 2
MaxConvs == 1
MaxChunks == 2
MaxLimit == 3
MaxCalls == 3
MaxTime == 3

Turns == {1, 2}
Users == {"u1"}
NoUser == "none"
\* An absent identifier (undefined / null in the code).
NoId == 0
\* An identifier no conversation ever gets.
MissingId == MaxConvs + MaxTurns + 1

VARIABLES
  initialized,    \* AssistantAI.initialized
  cache,          \* PersonalityService.cache holds a fresh entry
  persRows,       \* number of rows of the personality table
  conversations,  \* conversation table, in insertion order; the uuid is the index
  messages,       \* message table, in insertion order; the internal id is the index
  turns,          \* the sendMessage / streamMessage call of each caller
  started,        \* number of turns started so far
  knowledge,      \* knowledge table: the uuids of the stored items
  lastSearch,     \* the knowledge search in progress, with its answer
  now,            \* Date.now(), in ticks
  pcache,         \* SimpleCache.store: the entry of the key 'personality'
  personality,    \* personality table, oldest last_built_at first
  calls,          \* the getPersonality / buildPersonality / setPersonality calls
  called,         \* number of personality calls so far
  customInstructions,  \* config.personality.customInstructions is given
  assistantName,       \* config.personality.name, or undefined
  similarity,          \* a call of cosineSimilarity: its arguments and its value
  listing,             \* a read of the messages of a conversation
  itemRows,            \* knowledge table as the service writes it: the type,
                       \* content and embedding columns, in insertion order
  itemCall,            \* the createItem / updateItem / deleteItem call
  past            \* history of the personality calls, for the properties

vars == <<initialized, cache, persRows, conversations, messages, turns, started,
          knowledge, lastSearch,
          now, pcache, personality, calls, called, customInstructions,
          assistantName, past, similarity, listing, itemRows, itemCall>>

\* The state of the conversation turns, and the state of the services beside them.
turnVars == <<initialized, cache, persRows, conversations, messages, turns, started>>
knowledgeVars == <<knowledge, lastSearch>>
personalityVars == <<now, pcache, personality, calls, called, customInstructions,
          assistantName, past>>
functionVars == <<similarity, listing>>
itemVars == <<itemRows, itemCall>>
serviceVars == <<knowledgeVars, personalityVars, functionVars, itemVars>>

\* A field the caller or the configuration leaves out.
Undefined == "undefined"

\* Message uuids are distinct from the internal ids that foreign keys use.
MessageUuid(id) == 100 + id

\* An event of a stream (types/index.ts 112-116); the value sendMessage
\* returns is kept the same way, as the one event "return".
Event(type, c, m, e) ==
  [type |-> type, conversationId |-> c, messageId |-> m, error |-> e, content |-> <<>>]

\* Faulty variant: the owner is not recorded.
NewConversation_NoCreator(userId) ==
  [creator |-> NoUser, messageCount |-> 0, deleted |-> FALSE]

\* ConversationRepository.create: the inserted row.
NewConversation(userId) == [creator |-> userId, messageCount |-> 0, deleted |-> FALSE]

IdleTurn ==
  [pc |-> "idle", kind |-> "send", conversationId |-> NoId, userId |-> NoUser,
   conv |-> NoId, userMsg |-> NoId, asstMsg |-> NoId, cnt |-> 0, ctx |-> "none",
   events |-> <<>>, result |-> "none",
   context |-> Undefined,   \* input.context
   loaded |-> <<>>,         \* the messages listByConversation gave
   prior |-> <<>>,          \* conversationHistory
   knowledgeResults |-> <<>>,
   failed |-> {},           \* the collaborators that failed in the knowledge
                            \* search, and "search" when the search threw
   system |-> <<>>,         \* the system message passed to the model
   fullContent |-> <<>>,    \* the reply, as the pieces the model gave
   userRow |-> [conv |-> NoId, type |-> "none", parent |-> NoId, status |-> "none",
                content |-> <<>>, metadata |-> {}],   \* the rows inserted, in full
   asstRow |-> [conv |-> NoId, type |-> "none", parent |-> NoId, status |-> "none",
                content |-> <<>>, metadata |-> {}],
   \* history of the call, for the properties:
   startCount |-> 0,    \* message count of the conversation at the call
   gone |-> FALSE,      \* the conversationId named no live conversation at the call
   alone |-> TRUE,      \* no other turn has run during this one
   created |-> 0,       \* conversations this turn has inserted
   writes |-> {}]       \* tables this turn has written

\* No knowledge search is in progress.
NoSearch == [op |-> "none"]

\* The conversation store and the instance after construction.
TurnInit ==
  /\ initialized = FALSE
  /\ cache = FALSE
  /\ persRows = 0
  /\ conversations = <<>>
  /\ messages = <<>>
  /\ turns = [t \in Turns |-> IdleTurn]
  /\ started = 0

Callers == {1, 2}
\* No system prompt (undefined).
NoPrompt == "none"
\* No entry in the cache.
NoEntry == [value |-> NoPrompt, expiresAt |-> 0]

IdleCall ==
  [op |-> "none", pc |-> "idle", prompt |-> NoPrompt, result |-> NoPrompt,
   \* history of the call, for the properties:
   path |-> "none",       \* how a getPersonality got its value
   found |-> "unread",    \* what its read of the personality table found
   alone |-> TRUE,        \* no other call has run during this one
   populated |-> FALSE,   \* the cache held an entry at the call
   expired |-> FALSE,     \* ... which had outlived its time-to-live
   cached |-> NoPrompt,   \* ... with this value
   expect |-> NoPrompt,   \* prompt of the setPersonality this call is the next after
   stale |-> NoPrompt,    \* value cached when that setPersonality was called
   reads |-> 0,           \* reads of the personality table
   samples |-> 0,         \* corpus samplings (getTopItems)
   generations |-> 0,     \* text-generation calls (summarizeKnowledgeBase)
   before |-> <<>>,       \* the personality table at the call
   sampled |-> {},        \* the items the sampling gave
   inserted |-> 0,        \* rows this call has inserted
   description |-> "none"]  \* profile.description of the built personality

NoPast ==
  [overlap |-> FALSE,     \* two calls have overlapped
   failed |-> FALSE,      \* a call has thrown
   lastSaved |-> 0,       \* row inserted by the build or set that ended last
   saves |-> 0,           \* rows inserted so far
   afterSet |-> NoPrompt, \* prompt of a setPersonality that ran alone, no call since
   stale |-> NoPrompt]    \* value cached when that setPersonality was called

\* No call of cosineSimilarity, no read of a conversation.
NoComparison == [pc |-> "none"]
NoListing == [op |-> "none"]
FunctionsIdle == similarity = NoComparison /\ listing = NoListing
\* No knowledge item has been written through the service.
NoItemCall ==
  [op |-> "none", pc |-> "idle", id |-> NoId, type |-> Undefined, content |-> Undefined,
   embedding |-> [type |-> "null", json |-> "none", value |-> <<>>],
   result |-> "none",
   before |-> [type |-> "removed", content |-> Undefined,
               embedding |-> [type |-> "null", json |-> "none", value |-> <<>>]]]
ItemsIdle == itemRows = <<>> /\ itemCall = NoItemCall

\* The personality service after construction, over an empty table.
PersonalityIdle ==
  /\ now = 0
  /\ pcache = NoEntry
  /\ personality = <<>>
  /\ calls = [c \in Callers |-> IdleCall]
  /\ called = 0
  /\ past = NoPast

\* A fresh instance over an empty store.
Init ==
  /\ TurnInit
  /\ knowledge = {}
  /\ lastSearch = NoSearch
  /\ PersonalityIdle
  /\ FunctionsIdle
  /\ ItemsIdle
  /\ customInstructions = FALSE
  /\ assistantName = Undefined

Active(tr) == tr.pc \notin {"idle", "done", "abandoned"}

----
\* Helpers translated from the code.

\* Variant: the validation also rejects a call that supplies both.
InvalidInput_UnlessExactlyOne(conversationId, userId) ==
  (conversationId = NoId) = (userId = NoUser)

\* AssistantAI.ts 134 / 232: the only input validation.
InvalidInput(conversationId, userId) == conversationId = NoId /\ userId = NoUser

\* Faulty variant: the deleted_at filter is missing.
GetById_IgnoringDeleted(c) == c \in 1..Len(conversations)

\* ConversationRepository.getById: the row with that uuid that is not soft-deleted.
GetById(c) == c \in 1..Len(conversations) /\ ~conversations[c].deleted

\* MessageRepository.create 19-25: the row with that uuid, soft-deleted or not.
ConvRowExists(c) == c \in 1..Len(conversations)

\* MessageRepository.create 28-37: the parent's internal id, null when the lookup fails.
ParentId(parentUuid, lookupOk) ==
  IF parentUuid # NoId /\ lookupOk
     /\ \E i \in 1..Len(messages) : MessageUuid(i) = parentUuid
  THEN CHOOSE i \in 1..Len(messages) : MessageUuid(i) = parentUuid
  ELSE NoId

\* The row MessageRepository.create inserts.
NewMessage(c, type, parent) ==
  [conv |-> c, type |-> type, parent |-> parent, status |-> "completed"]

\* The row in full, as MessageRepository.create 41-55 inserts it.  The
\* message table keeps the columns of NewMessage; the content and the
\* metadata of the rows a turn inserts are kept with the turn.  Metadata is
\* an object, kept as the set of its <<key, value>> pairs (49: `metadata || {}`).
Message(c, type, parent, content, metadata) ==
  [conv |-> c, type |-> type, parent |-> parent, status |-> "completed",
   content |-> content, metadata |-> metadata]

\* No row.
NoRow == [conv |-> NoId, type |-> "none", parent |-> NoId, status |-> "none",
          content |-> <<>>, metadata |-> {}]

\* AssistantAI.ts 160-163 / 260-263: the metadata of the user message.
UserMetadata(context) ==
  IF context # Undefined THEN {<<"context", context>>} ELSE {}

\* Faulty variant: every reply is marked as streamed.
AssistantMetadata_AlwaysStreamed(results, context, kind) ==
  {<<"knowledgeUsed", Len(results) > 0>>, <<"knowledgeItemCount", Len(results)>>,
   <<"streamed", TRUE>>}
  \cup (IF context # Undefined THEN {<<"userContext", context>>} ELSE {})

\* 197-203 / 303-310: the metadata of the assistant message.
AssistantMetadata(results, context, kind) ==
  {<<"knowledgeUsed", Len(results) > 0>>, <<"knowledgeItemCount", Len(results)>>}
  \cup (IF kind = "stream" THEN {<<"streamed", TRUE>>} ELSE {})
  \cup (IF context # Undefined THEN {<<"userContext", context>>} ELSE {})

\* A line of the system message: the personality prompt, the heading of the
\* knowledge block, or the line of a search result.
Line(text, uuid) == [text |-> text, uuid |-> uuid]

\* Faulty variant: the heading is there whatever the search gave.
FormatKnowledgeContext_Always(results) ==
  <<Line("Relevant information from knowledge base:", 0)>>
    \o [i \in 1..Len(results) |-> Line("item", results[i].uuid)]

\* KnowledgeService.formatKnowledgeContext (part_008 98-107): '' for no
\* result, else a heading and a line for each result.
FormatKnowledgeContext(results) ==
  IF Len(results) = 0 THEN <<>>
  ELSE <<Line("Relevant information from knowledge base:", 0)>>
         \o [i \in 1..Len(results) |-> Line("item", results[i].uuid)]

\* AIService.generateResponse 155-158 / streamResponse 191-194: the content
\* of the system message; an empty knowledgeContext is falsy and adds nothing.
SystemContent(knowledgeContext) ==
  <<Line("personality.systemPrompt", 0)>>
    \o (IF knowledgeContext # <<>> THEN knowledgeContext ELSE <<>>)

\* The reply generateResponse gives, and the i-th chunk of streamResponse.
Response == <<0>>
Chunk(i) == i

\* AssistantAI.ts 175 / 275: the number of messages a turn asks for.
HistoryLimit == 10
\* MessageRepository.listByConversation 77: the default of `limit`.
DefaultListLimit == 50
\* AssistantAI.ts 182 / 282: the limit and the threshold of the turn's search.
TurnSearchLimit == 3
TurnSearchThreshold == 70

\* The internal id of the persisted message with that uuid, NoId when there is none.
RowOf(uuid) ==
  IF \E i \in 1..Len(messages) : MessageUuid(i) = uuid
  THEN CHOOSE i \in 1..Len(messages) : MessageUuid(i) = uuid
  ELSE NoId

\* Number of `delta` events of an event sequence.
Deltas(events) == Cardinality({i \in 1..Len(events) : events[i].type = "delta"})

\* An exception raised in a turn.  streamMessage converts it to an `error`
\* event when it is raised inside its try block (230-339); init() is awaited
\* before the try block (228), and sendMessage has no handler at all.
Raise(tr, err, inTry) ==
  IF tr.kind = "stream" /\ inTry
  THEN [tr EXCEPT !.pc = "done", !.result = "error", !.ctx = "none", !.cnt = 0,
                  !.events = Append(@, Event("error", NoId, NoId, err))]
  ELSE [tr EXCEPT !.pc = "done", !.ctx = "none", !.cnt = 0,
                  !.result = IF tr.kind = "stream" THEN "rejected" ELSE err]

\* Faulty variant: the stream persists at once and yields no `start`.
AfterResolve_NoStart(tr, c) == [tr EXCEPT !.conv = c, !.pc = "save_user"]

\* Where a turn goes once the conversation is resolved: streamMessage yields
\* `start` and suspends (257), sendMessage goes on to persist the user message.
AfterResolve(tr, c) ==
  IF tr.kind = "stream"
  THEN [tr EXCEPT !.conv = c, !.pc = "yield_start",
                  !.events = Append(@, Event("start", c, NoId, "none"))]
  ELSE [tr EXCEPT !.conv = c, !.pc = "save_user"]

\* Where a turn goes once it holds the personality: the model call.
AfterPersonality(tr) ==
  [tr EXCEPT !.pc = IF tr.kind = "stream" THEN "streaming" ELSE "generate", !.ctx = "none",
             !.system = SystemContent(FormatKnowledgeContext(tr.knowledgeResults))]

SetTurn(t, tr) ==
  /\ turns' = [turns EXCEPT ![t] = tr]
  /\ started' = started
  /\ UNCHANGED serviceVars

----
\* The knowledge search: KnowledgeService (search 43-73, semanticSearch 88-96)
\* over KnowledgeRepository (semanticSearch 100-135, keywordSearch 137-158,
\* cosineSimilarity 171-180).  Scores and thresholds are in hundredths.

\* AssistantAI.ts 349-350: the defaults of searchKnowledge.
DefaultLimit == 5
DefaultThreshold == 70
\* KnowledgeRepository.keywordSearch 155: the score of every keyword result.
KeywordScore == 80

\* A value of the embedding column: none, a number[], or the text a vector
\* is read back as (JSON of an array, JSON of something else, or no JSON).
NoEmbedding == [type |-> "null", json |-> "none", value |-> <<>>]
Vector(v) == [type |-> "array", json |-> "none", value |-> v]
Text(json, v) == [type |-> "string", json |-> json, value |-> v]

\* The items a store is drawn from; the uuid of an item is its index, and
\* `keyword` says whether the full-text query matches it.
Catalogue ==
  << [embedding |-> Vector(<<1, 0>>), keyword |-> TRUE],
     [embedding |-> Text("array", <<5, 2>>), keyword |-> FALSE],
     [embedding |-> Vector(<<1, 1>>), keyword |-> TRUE],
     [embedding |-> Vector(<<0, 1>>), keyword |-> TRUE],
     [embedding |-> NoEmbedding, keyword |-> TRUE],
     [embedding |-> Vector(<<1>>), keyword |-> FALSE],
     [embedding |-> Text("number", <<>>), keyword |-> FALSE],
     [embedding |-> Text("invalid", <<>>), keyword |-> FALSE] >>

\* The embedding the embedding collaborator gives for the query.
QueryEmbedding == <<1, 0>>

Thresholds == {0, 70, 95}
SearchTypes == {"semantic", "keyword", "hybrid"}
Min(a, b) == IF a <= b THEN a ELSE b

\* The reduce of cosineSimilarity 174-176 over two arrays of one length.
RECURSIVE Dot(_, _)
Dot(a, b) == IF a = <<>> THEN 0 ELSE Head(a) * Head(b) + Dot(Tail(a), Tail(b))

\* n / sqrt(d2) in hundredths, cut towards 0 (n * n <= d2).
Hundredths(n, d2) ==
  LET m == IF n < 0 THEN -n ELSE n
      s == CHOOSE x \in 0..100 :
             x * x * d2 <= 10000 * m * m /\ (x + 1) * (x + 1) * d2 > 10000 * m * m
  IN IF n < 0 THEN -s ELSE s

\* KnowledgeRepository.cosineSimilarity 171-180.
CosineSimilarity(a, b) ==
  IF Len(a) # Len(b) THEN 0
  ELSE IF Dot(a, a) = 0 \/ Dot(b, b) = 0 THEN 0
  ELSE Hundredths(Dot(a, b), Dot(a, a) * Dot(b, b))

\* 111-114: JSON.parse of a string embedding throws on text that is no JSON.
Unparsable(e) == e.type = "string" /\ e.json = "invalid"
\* 116: Array.isArray of the embedding, parsed when it was a string.
IsArray(e) == e.type = "array" \/ (e.type = "string" /\ e.json = "array")

SearchResult(uuid, score) == [uuid |-> uuid, score |-> score]

\* A set of uuids in ascending order.
RECURSIVE SortAsc(_)
SortAsc(S) ==
  IF S = {} THEN <<>>
  ELSE LET m == CHOOSE x \in S : \A y \in S : x <= y
       IN <<m>> \o SortAsc(S \ {m})

\* results.sort((a, b) => b.score - a.score): descending and stable.
RECURSIVE SortByScore(_)
SortByScore(rs) ==
  IF rs = <<>> THEN <<>>
  ELSE LET i == CHOOSE k \in 1..Len(rs) :
                  /\ \A j \in 1..Len(rs) : rs[j].score <= rs[k].score
                  /\ \A j \in 1..(k - 1) : rs[j].score < rs[k].score
       IN <<rs[i]>> \o SortByScore(SubSeq(rs, 1, i - 1) \o SubSeq(rs, i + 1, Len(rs)))

\* slice(0, n).
Slice(rs, n) == SubSeq(rs, 1, Min(n, Len(rs)))

\* A query with .limit(n) and no ordering: any n of the rows that qualify.
Select(S, n) ==
  {SortAsc(T) : T \in {U \in SUBSET S : Cardinality(U) = Min(n, Cardinality(S))}}

\* The value or the exception of a call.
Thrown == [threw |-> TRUE, results |-> <<>>]
Returned(rs) == [threw |-> FALSE, results |-> rs]

\* Rows with an embedding (103), rows the full-text query matches (140-143).
Embedded == {u \in knowledge : Catalogue[u].embedding.type # "null"}
Matching == {u \in knowledge : Catalogue[u].keyword}

\* KnowledgeRepository.semanticSearch 108-134 on the rows the query returned.
Scored(rows, q, limit, threshold) ==
  IF \E i \in 1..Len(rows) : Unparsable(Catalogue[rows[i]].embedding)
  THEN Thrown
  ELSE LET Score(u) == CosineSimilarity(q, Catalogue[u].embedding.value)
           Kept(u) == IsArray(Catalogue[u].embedding) /\ Score(u) >= threshold
           kept == SelectSeq(rows, Kept)
           results == [i \in 1..Len(kept) |-> SearchResult(kept[i], Score(kept[i]))]
       IN Returned(Slice(SortByScore(results), limit))

\* KnowledgeRepository.semanticSearch 100-135: what it may answer.
RepoSemanticSearch(q, limit, threshold, queryOk) ==
  IF ~queryOk THEN {Thrown}
  ELSE {Scored(rows, q, limit, threshold) : rows \in Select(Embedded, limit * 3)}

\* Faulty variant: an error of the full-text query is thrown.
KeywordSearch_Throwing(limit, queryOk) ==
  IF ~queryOk THEN {Thrown}
  ELSE {Returned([i \in 1..Len(rows) |-> SearchResult(rows[i], KeywordScore)]) :
          rows \in Select(Matching, limit)}

\* KnowledgeRepository.keywordSearch 137-158: what it may answer.
KeywordSearch(limit, queryOk) ==
  IF ~queryOk THEN {Returned(<<>>)}
  ELSE {Returned([i \in 1..Len(rows) |-> SearchResult(rows[i], KeywordScore)]) :
          rows \in Select(Matching, limit)}

\* Faulty variant: the failures of the semantic sub-search are not caught.
ServiceSemanticSearch_NoCatch(limit, threshold, embedOk, queryOk) ==
  IF ~embedOk THEN {Thrown}
  ELSE RepoSemanticSearch(QueryEmbedding, limit, threshold, queryOk)

\* KnowledgeService.semanticSearch 88-96: a failure of the embedding
\* collaborator or of the repository becomes the empty list.
ServiceSemanticSearch(limit, threshold, embedOk, queryOk) ==
  IF ~embedOk THEN {Returned(<<>>)}
  ELSE {Returned(IF r.threw THEN <<>> ELSE r.results) :
          r \in RepoSemanticSearch(QueryEmbedding, limit, threshold, queryOk)}

\* 61-70: the first occurrence of each uuid is kept.
RECURSIVE Deduplicate(_, _)
Deduplicate(rs, seen) ==
  IF rs = <<>> THEN <<>>
  ELSE IF Head(rs).uuid \in seen THEN Deduplicate(Tail(rs), seen)
  ELSE <<Head(rs)>> \o Deduplicate(Tail(rs), seen \cup {Head(rs).uuid})

\* Faulty variant: the keyword results come first.
Combine_KeywordFirst(semantic, keyword) == Deduplicate(keyword \o semantic, {})

\* 61-70: semantic results, then keyword results, deduplicated by uuid.
Combine(semantic, keyword) == Deduplicate(semantic \o keyword, {})

\* What a search has answered, with what its sub-searches answered.
Answer(threw, semantic, keyword, results) ==
  [threw |-> threw, semantic |-> semantic, keyword |-> keyword,
   results |-> IF threw THEN <<>> ELSE results]

\* KnowledgeService.search 43-73: what it may answer, the collaborators in
\* `fail` failing.
Search(type, limit, threshold, fail) ==
  LET embedOk == "embedding" \notin fail
      semanticOk == "semanticQuery" \notin fail
      keywordOk == "keywordQuery" \notin fail
  IN IF type = "semantic"
     THEN {Answer(s.threw, s.results, <<>>, s.results) :
             s \in ServiceSemanticSearch(limit, threshold, embedOk, semanticOk)}
     ELSE IF type = "keyword"
     THEN {Answer(k.threw, <<>>, k.results, k.results) : k \in KeywordSearch(limit, keywordOk)}
     ELSE LET half == (limit + 1) \div 2 IN
          {Answer(p[1].threw \/ p[2].threw, p[1].results, p[2].results,
                  Slice(Combine(p[1].results, p[2].results), limit)) :
             p \in ServiceSemanticSearch(half, threshold, embedOk, semanticOk)
                     \X KeywordSearch(half, keywordOk)}

\* The collaborator failures a search of that type can meet.
Failures(type) ==
  LET semantic == {{}, {"embedding"}, {"semanticQuery"}}
      keyword == {{}, {"keywordQuery"}}
  IN IF type = "semantic" THEN semantic
     ELSE IF type = "keyword" THEN keyword
     ELSE {s \cup k : s \in semantic, k \in keyword}

\* A search call: what was requested, what KnowledgeService.search was given,
\* the failures it met and its answer.
Call(op, requested, type, limit, threshold, fail, answer) ==
  [op |-> op, requested |-> requested, type |-> type, limit |-> limit,
   threshold |-> threshold, fail |-> fail, threw |-> answer.threw,
   semantic |-> answer.semantic, keyword |-> answer.keyword, results |-> answer.results]

\* KnowledgeService.search called as sendMessage does (182), with any arguments.
KnowledgeSearch ==
  /\ lastSearch = NoSearch
  /\ \E type \in SearchTypes, limit \in 0..MaxLimit, threshold \in Thresholds :
       \E fail \in Failures(type) :
         \E answer \in Search(type, limit, threshold, fail) :
           lastSearch' = Call("search", [type |-> type, limit |-> limit, threshold |-> threshold],
                              type, limit, threshold, fail, answer)
  /\ UNCHANGED knowledge
  /\ UNCHANGED <<turnVars, personalityVars, functionVars, itemVars>>

\* AssistantAI.searchKnowledge 346-353: `||` replaces a missing or falsy
\* field by its default.
SearchKnowledge ==
  /\ lastSearch = NoSearch
  /\ \E input \in [type : SearchTypes \cup {Undefined}, limit : 0..MaxLimit,
                   threshold : Thresholds] :
       LET type == IF input.type = Undefined THEN "hybrid" ELSE input.type
           limit == IF input.limit = 0 THEN DefaultLimit ELSE input.limit
           threshold == IF input.threshold = 0 THEN DefaultThreshold ELSE input.threshold
       IN \E fail \in Failures(type) :
            \E answer \in Search(type, limit, threshold, fail) :
              lastSearch' = Call("searchKnowledge", input, type, limit, threshold, fail, answer)
  /\ UNCHANGED knowledge
  /\ UNCHANGED <<turnVars, personalityVars, functionVars, itemVars>>

\* The caller takes the answer.
SearchReturn ==
  /\ lastSearch # NoSearch
  /\ lastSearch' = NoSearch
  /\ UNCHANGED knowledge
  /\ UNCHANGED <<turnVars, personalityVars, functionVars, itemVars>>

\* Any store of catalogue items, and no search yet.
SearchInit ==
  /\ knowledge \in SUBSET DOMAIN Catalogue
  /\ lastSearch = NoSearch
  /\ TurnInit
  /\ PersonalityIdle
  /\ FunctionsIdle
  /\ ItemsIdle
  /\ customInstructions = FALSE
  /\ assistantName = Undefined

SearchNext == KnowledgeSearch \/ SearchKnowledge \/ SearchReturn

SearchSpec == SearchInit /\ [][SearchNext]_vars

\* MessageRepository.listByConversation 87-92: the messages of the
\* conversation by created_at ascending, cut after `limit` of them.
ListByConversation(c, limit) ==
  Slice(SortAsc({i \in 1..Len(messages) : messages[i].conv = c}), limit)

\* messages.slice(0, -1) (176 / 276).
AllButLast(seq) == SubSeq(seq, 1, Len(seq) - 1)

----
\* Public operations beside the turns.

\* AssistantAI.createConversation (88-94).
CreateConversation(u) ==
  /\ Len(conversations) < MaxConvs
  /\ conversations' = Append(conversations, NewConversation(u))
  /\ UNCHANGED <<initialized, cache, persRows, messages, turns, started>>
  /\ UNCHANGED serviceVars

\* AssistantAI.deleteConversation (110-112): a soft delete.
DeleteConversation(c) ==
  /\ c \in 1..Len(conversations)
  /\ ~conversations[c].deleted
  /\ conversations' = [conversations EXCEPT ![c].deleted = TRUE]
  /\ UNCHANGED <<initialized, cache, persRows, messages, turns, started>>
  /\ UNCHANGED serviceVars

\* SimpleCache.get 24-27: the entry outlives its time-to-live.
CacheExpire ==
  /\ cache
  /\ cache' = FALSE
  /\ UNCHANGED <<initialized, persRows, conversations, messages, turns, started>>
  /\ UNCHANGED serviceVars

----
\* A turn: sendMessage (130-225) or streamMessage (227-340).

\* The call (for streamMessage: the consumer's first request), up to `await this.init()`.
\* The caller takes the first free slot; the records of the turns that are over are dropped.
StartOf(t, most, inputs) ==
  /\ started < most
  /\ ~Active(turns[t])
  /\ \A x \in Turns : x < t => Active(turns[x])
  /\ started' = started + 1
  /\ \E input \in inputs :
       LET c == input.conversationId IN
       turns' = [x \in Turns |->
         IF x = t
         THEN [IdleTurn EXCEPT
                 !.pc = IF initialized THEN "resolve" ELSE "init",
                 !.kind = input.kind, !.conversationId = c, !.userId = input.userId,
                 !.context = input.context,
                 !.startCount = IF c \in 1..Len(conversations)
                                THEN conversations[c].messageCount ELSE 0,
                 !.gone = /\ c # NoId
                          /\ (c \notin 1..Len(conversations) \/ conversations[c].deleted),
                 !.alone = \A y \in Turns \ {t} : ~Active(turns[y])]
         ELSE IF Active(turns[x]) THEN [turns[x] EXCEPT !.alone = FALSE]
         ELSE IdleTurn]
  /\ UNCHANGED <<initialized, cache, persRows, conversations, messages>>
  /\ UNCHANGED serviceVars

\* A call with any input: sendMessage or streamMessage, with or without a
\* userId, with or without the id of a conversation, stored or not.
StartWith(t, contexts) ==
  StartOf(t, MaxTurns,
          [kind : {"send", "stream"}, userId : Users \cup {NoUser},
           conversationId : (1..Len(conversations)) \cup {NoId, MissingId},
           context : contexts])

\* A call that gives no context.
Start(t) == StartWith(t, {Undefined})

\* A turn that starts when no other turn is running.
StartAlone(t) == (\A x \in Turns : ~Active(turns[x])) /\ Start(t)

\* Faulty variant: the instance is marked initialized before the personality
\* is there.
InitGet_FlagFirst(t) ==
  /\ turns[t].pc = "init"
  /\ initialized' = TRUE
  /\ \/ /\ cache \/ persRows > 0
        /\ cache' = TRUE
        /\ SetTurn(t, [turns[t] EXCEPT !.pc = "resolve"])
     \/ /\ ~cache /\ persRows = 0
        /\ SetTurn(t, [turns[t] EXCEPT !.pc = "build", !.ctx = "init_get"])
        /\ UNCHANGED cache
     \/ /\ ~cache
        /\ SetTurn(t, [turns[t] EXCEPT !.pc = "build", !.ctx = "init_catch"])
        /\ UNCHANGED cache
  /\ UNCHANGED <<persRows, conversations, messages>>

\* init() 70-82 up to the answer of personalityService.getPersonality()
\* (PersonalityService.ts 57-85): a cache hit, a persisted record, no record
\* (getPersonality builds one), or a failed read (init's catch builds one).
InitGet(t) ==
  /\ turns[t].pc = "init"
  /\ \/ /\ cache \/ persRows > 0
        /\ cache' = TRUE
        /\ initialized' = TRUE
        /\ SetTurn(t, [turns[t] EXCEPT !.pc = "resolve"])
     \/ /\ ~cache /\ persRows = 0
        /\ SetTurn(t, [turns[t] EXCEPT !.pc = "build", !.ctx = "init_get"])
        /\ UNCHANGED <<initialized, cache>>
     \/ /\ ~cache                            \* repository.get() fails
        /\ SetTurn(t, [turns[t] EXCEPT !.pc = "build", !.ctx = "init_catch"])
        /\ UNCHANGED <<initialized, cache>>
  /\ UNCHANGED <<persRows, conversations, messages>>

\* The turn after a build of context ctx has thrown.
BuildThrown(tr) ==
  IF tr.ctx = "init_get" THEN [tr EXCEPT !.pc = "build", !.ctx = "init_catch"]
  ELSE IF tr.ctx = "init_catch" THEN Raise(tr, "Error", FALSE)
  ELSE Raise(tr, "Error", TRUE)

\* buildPersonality 87-146: the cache entry is dropped, then the prompt is
\* made (override, generic, or a summary of the sampled corpus, which throws
\* when the corpus read or the summarization fails).
BuildSample(t) ==
  /\ turns[t].pc = "build"
  /\ cache' = FALSE
  /\ \/ SetTurn(t, [turns[t] EXCEPT !.pc = "save_delete"])
     \/ SetTurn(t, BuildThrown(turns[t]))
  /\ UNCHANGED <<initialized, persRows, conversations, messages>>

\* PersonalityRepository.save, the delete (FeedbackRepository.ts 133): its error is ignored.
SaveDelete(t) ==
  /\ turns[t].pc = "save_delete"
  /\ persRows' \in {0, persRows}
  /\ SetTurn(t, [turns[t] EXCEPT !.pc = "save_insert",
                   !.writes = IF persRows' # persRows THEN @ \cup {"personality"} ELSE @])
  /\ UNCHANGED <<initialized, cache, conversations, messages>>

\* PersonalityRepository.save, the insert (135-147), then cache.set and the
\* return to getPersonality's caller: init (81) or the turn.
SaveInsert(t) ==
  /\ turns[t].pc = "save_insert"
  /\ \/ /\ persRows' = persRows + 1
        /\ cache' = TRUE
        /\ LET tr == [turns[t] EXCEPT !.writes = @ \cup {"personality"}] IN
           IF tr.ctx = "turn"
           THEN /\ SetTurn(t, AfterPersonality(tr))
                /\ UNCHANGED initialized
           ELSE /\ SetTurn(t, [tr EXCEPT !.pc = "resolve", !.ctx = "none"])
                /\ initialized' = TRUE
     \/ /\ SetTurn(t, BuildThrown(turns[t]))
        /\ UNCHANGED <<initialized, cache, persRows>>
  /\ UNCHANGED <<conversations, messages>>

\* 133-157 / 231-257: validation, then the conversation is created or looked up.
Resolve(t) ==
  /\ turns[t].pc = "resolve"
  /\ LET tr == turns[t] IN
     IF InvalidInput(tr.conversationId, tr.userId)
     THEN /\ SetTurn(t, Raise(tr, "InvalidInput", TRUE))
          /\ UNCHANGED conversations
     ELSE IF tr.conversationId = NoId
     THEN \/ /\ conversations' = Append(conversations, NewConversation(tr.userId))
             /\ SetTurn(t, AfterResolve([tr EXCEPT !.created = @ + 1,
                                                    !.writes = @ \cup {"conversation"}],
                                        Len(conversations) + 1))
          \/ /\ SetTurn(t, Raise(tr, "Error", TRUE))
             /\ UNCHANGED conversations
     ELSE \/ /\ GetById(tr.conversationId)
             /\ SetTurn(t, AfterResolve(tr, tr.conversationId))
             /\ UNCHANGED conversations
          \/ /\ ~GetById(tr.conversationId)
             /\ SetTurn(t, Raise(tr, "NotFound", TRUE))
             /\ UNCHANGED conversations
          \/ /\ SetTurn(t, Raise(tr, "Error", TRUE))
             /\ UNCHANGED conversations
  /\ UNCHANGED <<initialized, cache, persRows, messages>>

\* The consumer of a stream requests the next event after `start` or a `delta`.
ConsumerNext(t) ==
  /\ turns[t].pc \in {"yield_start", "yield_delta"}
  /\ SetTurn(t, [turns[t] EXCEPT
                   !.pc = IF turns[t].pc = "yield_start" THEN "save_user" ELSE "streaming"])
  /\ UNCHANGED <<initialized, cache, persRows, conversations, messages>>

\* The consumer stops iterating: the generator is returned at its yield and
\* runs no further statement (there is no finally block).
ConsumerStop(t) ==
  /\ turns[t].pc \in {"yield_start", "yield_delta"}
  /\ SetTurn(t, [turns[t] EXCEPT !.pc = "abandoned", !.result = "abandoned"])
  /\ UNCHANGED <<initialized, cache, persRows, conversations, messages>>

\* 165-172 / 265-272: messageRepo.create for the user message.
SaveUser(t) ==
  /\ turns[t].pc = "save_user"
  /\ LET tr == turns[t] IN
     \/ /\ ConvRowExists(tr.conv)
        /\ messages' = Append(messages, NewMessage(tr.conv, "user", NoId))
        /\ SetTurn(t, [tr EXCEPT !.pc = "history", !.userMsg = MessageUuid(Len(messages) + 1),
                                 !.userRow = Message(tr.conv, "user", NoId, <<>>,
                                                     UserMetadata(tr.context)),
                                 !.writes = @ \cup {"message"}])
     \/ /\ SetTurn(t, Raise(tr, "Error", TRUE))
        /\ UNCHANGED messages
  /\ UNCHANGED <<initialized, cache, persRows, conversations>>

\* 174-183 / 274-283: the history read, which may fail, and the knowledge
\* search, which never throws (KnowledgeService.search); the collaborators of
\* the search that fail are drawn from `failures`.
HistoryWith(t, failures) ==
  /\ turns[t].pc = "history"
  /\ \/ \E fail \in failures :
          \E answer \in Search("hybrid", TurnSearchLimit, TurnSearchThreshold, fail) :
            LET loaded == ListByConversation(turns[t].conv, HistoryLimit) IN
            SetTurn(t, IF answer.threw
                       THEN Raise([turns[t] EXCEPT !.failed = fail \cup {"search"}],
                                  "Error", TRUE)
                       ELSE [turns[t] EXCEPT !.pc = "personality",
                               !.loaded = loaded, !.prior = AllButLast(loaded),
                               !.knowledgeResults = answer.results,
                               !.failed = fail])
     \/ SetTurn(t, Raise(turns[t], "Error", TRUE))
  /\ UNCHANGED <<initialized, cache, persRows, conversations, messages>>

\* The step of a turn over a store without knowledge items, where every
\* sub-search answers the empty list whether its collaborator fails or not.
History(t) == HistoryWith(t, {{}})

\* The step of a turn whose search may meet every failure of a collaborator.
HistorySearch(t) == HistoryWith(t, Failures("hybrid"))

\* 186 / 286: personalityService.getPersonality() in the turn.
Personality(t) ==
  /\ turns[t].pc = "personality"
  /\ \/ /\ cache \/ persRows > 0
        /\ cache' = TRUE
        /\ SetTurn(t, AfterPersonality(turns[t]))
     \/ /\ ~cache /\ persRows = 0
        /\ SetTurn(t, [turns[t] EXCEPT !.pc = "build", !.ctx = "turn"])
        /\ UNCHANGED cache
     \/ /\ ~cache
        /\ SetTurn(t, Raise(turns[t], "Error", TRUE))
        /\ UNCHANGED cache
  /\ UNCHANGED <<initialized, persRows, conversations, messages>>

\* Faulty variant: the reply row is inserted before the model is called.
Generate_ReplyFirst(t) ==
  /\ turns[t].pc = "generate"
  /\ messages' = Append(messages,
        NewMessage(turns[t].conv, "assistant", ParentId(turns[t].userMsg, TRUE)))
  /\ \/ SetTurn(t, [turns[t] EXCEPT !.pc = "save_asst"])
     \/ SetTurn(t, Raise(turns[t], "ModelError", TRUE))
  /\ UNCHANGED <<initialized, cache, persRows, conversations>>

\* 188-194: aiService.generateResponse; its failure is not caught in sendMessage.
Generate(t) ==
  /\ turns[t].pc = "generate"
  /\ \/ SetTurn(t, [turns[t] EXCEPT !.pc = "save_asst", !.fullContent = Response])
     \/ SetTurn(t, Raise(turns[t], "ModelError", TRUE))
  /\ UNCHANGED <<initialized, cache, persRows, conversations, messages>>

\* Faulty variant: the partial reply is persisted with every chunk.
StreamDelta_Persisting(t) ==
  /\ turns[t].pc = "streaming"
  /\ Deltas(turns[t].events) < MaxChunks
  /\ messages' = Append(messages,
        NewMessage(turns[t].conv, "assistant", ParentId(turns[t].userMsg, TRUE)))
  /\ SetTurn(t, [turns[t] EXCEPT !.pc = "yield_delta",
                   !.events = Append(@, Event("delta", NoId, NoId, "none"))])
  /\ UNCHANGED <<initialized, cache, persRows, conversations>>

\* 297-300: the model yields a chunk, which is appended to fullContent and
\* yielded as a `delta`.
StreamDelta(t) ==
  /\ turns[t].pc = "streaming"
  /\ Deltas(turns[t].events) < MaxChunks
  /\ LET chunk == Chunk(Deltas(turns[t].events) + 1) IN
     SetTurn(t, [turns[t] EXCEPT !.pc = "yield_delta",
                   !.fullContent = Append(@, chunk),
                   !.events = Append(@, [Event("delta", NoId, NoId, "none")
                                           EXCEPT !.content = <<chunk>>])])
  /\ UNCHANGED <<initialized, cache, persRows, conversations, messages>>

\* 297: the model's stream ends, or fails.
StreamEnd(t) ==
  /\ turns[t].pc = "streaming"
  /\ \/ SetTurn(t, [turns[t] EXCEPT !.pc = "save_asst"])
     \/ SetTurn(t, Raise(turns[t], "ModelError", TRUE))
  /\ UNCHANGED <<initialized, cache, persRows, conversations, messages>>

\* 205-212 / 312-319: messageRepo.create for the assistant message.
SaveAssistant(t) ==
  /\ turns[t].pc = "save_asst"
  /\ LET tr == turns[t] IN
     \/ /\ ConvRowExists(tr.conv)
        /\ \E lookupOk \in BOOLEAN :
             LET parent == ParentId(tr.userMsg, lookupOk) IN
             /\ messages' = Append(messages, NewMessage(tr.conv, "assistant", parent))
             /\ SetTurn(t, [tr EXCEPT
                   !.pc = "count_read", !.asstMsg = MessageUuid(Len(messages) + 1),
                   !.asstRow = Message(tr.conv, "assistant", parent, tr.fullContent,
                                  AssistantMetadata(tr.knowledgeResults, tr.context, tr.kind)),
                   !.writes = @ \cup {"message"}])
     \/ /\ SetTurn(t, Raise(tr, "Error", TRUE))
        /\ UNCHANGED messages
  /\ UNCHANGED <<initialized, cache, persRows, conversations>>

\* The return of sendMessage (220-224) or the `final` event (327-332).
Finish(tr) ==
  IF tr.kind = "stream"
  THEN [tr EXCEPT !.pc = "done", !.result = "final", !.cnt = 0,
                  !.events = Append(@, [Event("final", tr.conv, tr.asstMsg, "none")
                                          EXCEPT !.content = tr.fullContent])]
  ELSE [tr EXCEPT !.pc = "done", !.result = "ok", !.cnt = 0,
                  !.events = Append(@, [Event("return", tr.conv, tr.asstMsg, "none")
                                          EXCEPT !.content = tr.fullContent])]

\* 215-216 / 322-323: conversationRepo.getById before the count update.
CountRead(t) ==
  /\ turns[t].pc = "count_read"
  /\ LET tr == turns[t] IN
     \/ /\ GetById(tr.conv)
        /\ SetTurn(t, [tr EXCEPT !.pc = "count_write", !.cnt = conversations[tr.conv].messageCount])
     \/ /\ ~GetById(tr.conv)
        /\ SetTurn(t, Finish(tr))
     \/ SetTurn(t, Raise(tr, "Error", TRUE))
  /\ UNCHANGED <<initialized, cache, persRows, conversations, messages>>

\* 217 / 324: conversationRepo.updateMessageCount(conversationId, messageCount + 2).
CountWrite(t) ==
  /\ turns[t].pc = "count_write"
  /\ LET tr == turns[t] IN
     \/ /\ conversations' = [conversations EXCEPT ![tr.conv].messageCount = tr.cnt + 2]
        /\ SetTurn(t, Finish([tr EXCEPT !.writes = @ \cup {"conversation"}]))
     \/ /\ SetTurn(t, Raise(tr, "Error", TRUE))
        /\ UNCHANGED conversations
  /\ UNCHANGED <<initialized, cache, persRows, messages>>

Next ==
  \/ \E u \in Users : CreateConversation(u)
  \/ \E c \in 1..Len(conversations) : DeleteConversation(c)
  \/ CacheExpire
  \/ \E t \in Turns :
       \/ StartAlone(t) \/ InitGet(t) \/ BuildSample(t) \/ SaveDelete(t) \/ SaveInsert(t)
       \/ Resolve(t) \/ ConsumerNext(t) \/ ConsumerStop(t) \/ SaveUser(t) \/ History(t)
       \/ Personality(t) \/ Generate(t) \/ StreamDelta(t) \/ StreamEnd(t)
       \/ SaveAssistant(t) \/ CountRead(t) \/ CountWrite(t)

Spec == Init /\ [][Next]_vars

----
\* One turn in full, over a store that may hold a conversation already, with
\* or without knowledge items and a context; and getConversation (96-104).

\* The messages of the longest conversation stored at the start.
MaxMessages == 51
\* How many messages the stored conversation holds.
Fills == {0, HistoryLimit, MaxMessages}
\* The knowledge items of a filled store.
TurnKnowledge == {1, 3, 4, 5}
\* input.context: left out, or an object.
Contexts == {Undefined, "ctx"}

\* The i-th message of the stored conversation: the turns before have left a
\* user message and the reply to it each; a last message without a reply is
\* what a failed turn has left.
StoredMessage(i) ==
  IF i % 2 = 1 THEN NewMessage(1, "user", NoId) ELSE NewMessage(1, "assistant", i - 1)

\* The stored conversation, counted by the turns that succeeded.
StoredConversation(n) == [NewConversation("u1") EXCEPT !.messageCount = n - (n % 2)]

\* The only turn of the instance, with or without a context.  The calls
\* run one after another.
StartOne(t) == started = 0 /\ listing = NoListing /\ StartWith(t, Contexts)

\* A call of getConversation, and what it has answered.
Listing(c, pc, result) ==
  [op |-> "getConversation", conversationId |-> c, pc |-> pc, result |-> result,
   messages |-> <<>>,
   persisted |-> 0]   \* history: the messages of the conversation at the read

\* getConversation 96-100: conversationRepo.getById; no row, or a
\* soft-deleted one, is `Conversation not found`.  It is called when no turn
\* is running; the records of the turns that are over are dropped.
GetConversation(c) ==
  /\ listing = NoListing
  /\ \A t \in Turns : ~Active(turns[t])
  /\ \/ GetById(c) /\ listing' = Listing(c, "list", "none")
     \/ ~GetById(c) /\ listing' = Listing(c, "done", "NotFound")
     \/ listing' = Listing(c, "done", "Error")
  /\ turns' = [t \in Turns |-> IdleTurn]
  /\ UNCHANGED <<initialized, cache, persRows, conversations, messages, started>>
  /\ UNCHANGED <<knowledgeVars, personalityVars, similarity, itemVars>>

\* getConversation 102-103: messageRepo.listByConversation(conversationId),
\* with the default limit.
ListMessages ==
  /\ listing # NoListing
  /\ listing.pc = "list"
  /\ \/ listing' = [listing EXCEPT
          !.pc = "done", !.result = "ok",
          !.messages = ListByConversation(listing.conversationId, DefaultListLimit),
          !.persisted = Cardinality({i \in 1..Len(messages) :
                                       messages[i].conv = listing.conversationId})]
     \/ listing' = [listing EXCEPT !.pc = "done", !.result = "Error"]
  /\ UNCHANGED <<turnVars, knowledgeVars, personalityVars, similarity, itemVars>>

\* A fresh instance over an empty store or over a stored conversation.
OneTurnInit ==
  /\ initialized = FALSE
  /\ cache = FALSE
  /\ persRows = 0
  /\ turns = [t \in Turns |-> IdleTurn]
  /\ started = 0
  /\ \/ conversations = <<>> /\ messages = <<>>
     \/ \E n \in Fills :
          /\ conversations = <<StoredConversation(n)>>
          /\ messages = [i \in 1..n |-> StoredMessage(i)]
  /\ knowledge \in {{}, TurnKnowledge}
  /\ lastSearch = NoSearch
  /\ PersonalityIdle
  /\ FunctionsIdle
  /\ ItemsIdle
  /\ customInstructions = FALSE
  /\ assistantName = Undefined

OneTurnNext ==
  \/ \E u \in Users : CreateConversation(u)
  \/ \E c \in 1..Len(conversations) : DeleteConversation(c)
  \/ CacheExpire
  \/ \E c \in (1..Len(conversations)) \cup {MissingId} : GetConversation(c)
  \/ ListMessages
  \/ \E t \in Turns :
       \/ StartOne(t) \/ InitGet(t) \/ BuildSample(t) \/ SaveDelete(t) \/ SaveInsert(t)
       \/ Resolve(t) \/ ConsumerNext(t) \/ ConsumerStop(t) \/ SaveUser(t) \/ HistorySearch(t)
       \/ Personality(t) \/ Generate(t) \/ StreamDelta(t) \/ StreamEnd(t)
       \/ SaveAssistant(t) \/ CountRead(t) \/ CountWrite(t)

OneTurnSpec == OneTurnInit /\ [][OneTurnNext]_vars

----
\* Turns that overlap on one stored conversation, on an instance that is
\* initialized and holds the personality in its cache.  A call arrives when
\* no turn is running, or while the turns that are running wait for the
\* messages of the conversation (174 / 274) or for the update of the message
\* count (217 / 324); the request a turn waits for is answered once the
\* turns that have arrived after it are over.

\* The turns in all; Turns of them at most run at a time.
MaxOverlapping == 3

\* A call that names the stored conversation.
StartOverlapping(t) ==
  /\ \A x \in Turns : Active(turns[x]) => turns[x].pc \in {"history", "count_write"}
  /\ StartOf(t, MaxOverlapping,
             [kind : {"send", "stream"}, userId : Users,
              conversationId : 1..Len(conversations), context : {Undefined}])

\* An initialized instance over a conversation of one turn.
OverlapInit ==
  /\ initialized = TRUE
  /\ cache = TRUE
  /\ persRows = 1
  /\ conversations = <<StoredConversation(2)>>
  /\ messages = [i \in 1..2 |-> StoredMessage(i)]
  /\ turns = [t \in Turns |-> IdleTurn]
  /\ started = 0
  /\ knowledge = {}
  /\ lastSearch = NoSearch
  /\ PersonalityIdle
  /\ FunctionsIdle
  /\ ItemsIdle
  /\ customInstructions = FALSE
  /\ assistantName = Undefined

\* No turn that has arrived after the turn of slot t is running: a call
\* takes the first free slot.
Newest(t) == \A x \in Turns : x > t => ~Active(turns[x])

OverlapNext ==
  \E t \in Turns :
    \/ Newest(t) /\ StartOverlapping(t)
    \/ Newest(t) /\ Resolve(t)
    \/ Newest(t) /\ ConsumerNext(t)
    \/ Newest(t) /\ ConsumerStop(t)
    \/ Newest(t) /\ SaveUser(t)
    \/ Newest(t) /\ History(t)
    \/ Newest(t) /\ Personality(t)
    \/ Newest(t) /\ Generate(t)
    \/ Newest(t) /\ StreamDelta(t)
    \/ Newest(t) /\ StreamEnd(t)
    \/ Newest(t) /\ SaveAssistant(t)
    \/ Newest(t) /\ CountRead(t)
    \/ Newest(t) /\ CountWrite(t)

OverlapSpec == OverlapInit /\ [][OverlapNext]_vars

----
\* The personality service: PersonalityService.ts (SimpleCache 12-42,
\* getPersonality 57-85, buildPersonality 87-154, setPersonality 156-162)
\* over PersonalityRepository (FeedbackRepository.ts 105-160).

\* SimpleCache.ttl (PersonalityService.ts 54: 5 minutes), in ticks of the clock.
TTL == 2
\* The prompts setPersonality is called with.
SetPrompts == {"p1", "p2"}
\* buildPersonality 110: the number of items getTopItems is asked for.
SampleSize == 10
\* config.personality.name as the host gives it, or not.
Names == {Undefined, "Vezlo"}
\* The instances the service is run as: with and without configured
\* instructions and name, over no knowledge item, one item, and more items
\* than one sampling takes.  An item created later has a greater uuid.
Instance(instructions, name, items) ==
  [customInstructions |-> instructions, name |-> name, knowledge |-> items]
Instances ==
  {Instance(FALSE, Undefined, {}), Instance(FALSE, "Vezlo", {}),
   Instance(FALSE, Undefined, {1}), Instance(FALSE, "Vezlo", 1..(SampleSize + 1)),
   Instance(TRUE, Undefined, {1}), Instance(TRUE, "Vezlo", {})}

\* buildPersonality 92, 114, 139: `||` replaces a missing name.
Name == IF assistantName = Undefined THEN "AI Assistant" ELSE assistantName

\* AIService.summarizeKnowledgeBase 236-262: the summary the model gives.
Summary == "summary of the sampled items"

\* buildGenericSystemPrompt 163-174: a fixed text around the name.
BuildGenericSystemPrompt(name) ==
  CASE name = "AI Assistant" -> "You are AI Assistant, a helpful AI assistant."
    [] name = "Vezlo" -> "You are Vezlo, a helpful AI assistant."

\* buildKnowledgeBasedSystemPrompt 176-194: a fixed text around the name
\* and the summary.
BuildKnowledgeBasedSystemPrompt(name, kbSummary) ==
  CASE name = "AI Assistant" /\ kbSummary = Summary ->
         "You are AI Assistant, an AI assistant with expertise based on: summary of the sampled items"
    [] name = "Vezlo" /\ kbSummary = Summary ->
         "You are Vezlo, an AI assistant with expertise based on: summary of the sampled items"

\* KnowledgeRepository.listRecent 160-169: the `limit` items created last.
ListRecent(limit) ==
  {i \in knowledge : Cardinality({j \in knowledge : j > i}) < limit}

\* Faulty variant: an entry never expires.
Fresh_NoExpiry(entry, t) == entry # NoEntry

\* SimpleCache.get 20-30: there is an entry and Date.now() is not past its expiresAt.
Fresh(entry, t) == entry # NoEntry /\ ~(t > entry.expiresAt)

\* SimpleCache.set 32-37.
CacheSet(value, t) == [value |-> value, expiresAt |-> t + TTL]

\* PersonalityRepository.get 111-125: the row of the latest last_built_at.
Latest == personality[Len(personality)]

\* The row PersonalityRepository.save inserts (135-143), under a fresh id.
NewRow(prompt) == [id |-> past.saves + 1, systemPrompt |-> prompt]

CallActive(call) == call.pc \notin {"idle", "done"}

SetCall(c, call) == calls' = [calls EXCEPT ![c] = call] /\ called' = called

\* A call returns a value, or throws.
Return(call, value) == [call EXCEPT !.pc = "done", !.result = value]
Throw(call) == [call EXCEPT !.pc = "done", !.result = "error"]

\* Faulty variant: the configured instructions are not looked at.
EnterBuild_IgnoringInstructions(call) == [call EXCEPT !.pc = "sample"]

\* buildPersonality 91-110 after its cache.delete: the configured
\* instructions are the prompt, or the corpus is sampled.
EnterBuild(call) ==
  IF customInstructions
  THEN [call EXCEPT !.pc = "save_delete", !.prompt = "custom",
                    !.description = "Custom configured assistant"]
  ELSE [call EXCEPT !.pc = "sample"]

\* A call begins, up to its first await.  The caller takes the first free
\* slot; the records of the calls that are over are dropped.
Begin(c, call) ==
  /\ called < MaxCalls
  /\ ~CallActive(calls[c])
  /\ \A x \in Callers : x < c => CallActive(calls[x])
  /\ called' = called + 1
  /\ calls' = [x \in Callers |->
       IF x = c
       THEN [call EXCEPT !.alone = \A y \in Callers \ {c} : ~CallActive(calls[y]),
                         !.before = personality]
       ELSE IF CallActive(calls[x]) THEN [calls[x] EXCEPT !.alone = FALSE]
       ELSE IdleCall]
  /\ past' = [past EXCEPT
       !.overlap = @ \/ \E y \in Callers \ {c} : CallActive(calls[y]),
       !.afterSet = NoPrompt, !.stale = NoPrompt]

\* getPersonality 57-62: the cache is asked; a fresh entry is returned at
\* once, an expired one is dropped (SimpleCache.get 24-27).
GetPersonality(c) ==
  LET hit == Fresh(pcache, now)
      call == [IdleCall EXCEPT
                 !.op = "get",
                 !.populated = pcache # NoEntry,
                 !.expired = pcache # NoEntry /\ now > pcache.expiresAt,
                 !.cached = pcache.value,
                 !.expect = past.afterSet, !.stale = past.stale]
  IN /\ Begin(c, IF hit THEN Return([call EXCEPT !.path = "cache"], pcache.value)
                 ELSE [call EXCEPT !.pc = "load"])
     /\ pcache' = IF hit THEN pcache ELSE NoEntry
     /\ UNCHANGED <<now, personality, customInstructions, assistantName>>
     /\ UNCHANGED <<turnVars, knowledgeVars, functionVars, itemVars>>

\* buildPersonality 87-89, called by the host application.
BuildPersonality(c) ==
  /\ Begin(c, EnterBuild([IdleCall EXCEPT !.op = "build"]))
  /\ pcache' = NoEntry
  /\ UNCHANGED <<now, personality, customInstructions, assistantName>>
  /\ UNCHANGED <<turnVars, knowledgeVars, functionVars, itemVars>>

\* Faulty variant: the cache entry is left in place.
SetPersonality_KeepingCache(c, p) ==
  /\ Begin(c, [IdleCall EXCEPT !.op = "set", !.pc = "save_delete", !.prompt = p,
                 !.cached = IF pcache # NoEntry /\ now <= pcache.expiresAt
                            THEN pcache.value ELSE NoPrompt])
  /\ UNCHANGED <<now, pcache, personality, customInstructions, assistantName>>
  /\ UNCHANGED <<turnVars, knowledgeVars, functionVars, itemVars>>

\* setPersonality 156-161 up to the save: the cache entry is deleted.
SetPersonality(c, p) ==
  /\ Begin(c, [IdleCall EXCEPT !.op = "set", !.pc = "save_delete", !.prompt = p,
                 !.cached = IF pcache # NoEntry /\ now <= pcache.expiresAt
                            THEN pcache.value ELSE NoPrompt])
  /\ pcache' = NoEntry
  /\ UNCHANGED <<now, personality, customInstructions, assistantName>>
  /\ UNCHANGED <<turnVars, knowledgeVars, functionVars, itemVars>>

\* getPersonality 64-84: repository.get answers with the latest row, which
\* is cached and returned, or with none, and buildPersonality is called; or
\* it fails.
LoadPersonality(c) ==
  /\ calls[c].pc = "load"
  /\ LET call == [calls[c] EXCEPT !.reads = @ + 1] IN
     \/ /\ personality # <<>>
        /\ pcache' = CacheSet(Latest.systemPrompt, now)
        /\ SetCall(c, Return([call EXCEPT !.path = "persisted", !.found = "row"],
                             Latest.systemPrompt))
        /\ UNCHANGED past
     \/ /\ personality = <<>>
        /\ pcache' = NoEntry
        /\ SetCall(c, EnterBuild([call EXCEPT !.path = "build", !.found = "none"]))
        /\ UNCHANGED past
     \/ /\ SetCall(c, Throw(call))
        /\ past' = [past EXCEPT !.failed = TRUE]
        /\ UNCHANGED pcache
  /\ UNCHANGED <<now, personality, customInstructions, assistantName>>
  /\ UNCHANGED <<turnVars, knowledgeVars, functionVars, itemVars>>

\* buildPersonality 110-122: getTopItems(10); with no item the generic prompt is used.
SampleKnowledge(c) ==
  /\ calls[c].pc = "sample"
  /\ LET topItems == ListRecent(SampleSize)
         call == [calls[c] EXCEPT !.samples = @ + 1, !.sampled = topItems] IN
     \/ /\ topItems = {}
        /\ SetCall(c, [call EXCEPT !.pc = "save_delete",
                                   !.prompt = BuildGenericSystemPrompt(Name),
                                   !.description = "General purpose AI assistant"])
        /\ UNCHANGED past
     \/ /\ topItems # {}
        /\ SetCall(c, [call EXCEPT !.pc = "summarize"])
        /\ UNCHANGED past
     \/ /\ SetCall(c, Throw(call))
        /\ past' = [past EXCEPT !.failed = TRUE]
  /\ UNCHANGED <<now, pcache, personality, customInstructions, assistantName>>
  /\ UNCHANGED <<turnVars, knowledgeVars, functionVars, itemVars>>

\* buildPersonality 131-148: summarizeKnowledgeBase gives the prompt, or fails.
Summarize(c) ==
  /\ calls[c].pc = "summarize"
  /\ LET call == [calls[c] EXCEPT !.generations = @ + 1] IN
     \/ /\ SetCall(c, [call EXCEPT !.pc = "save_delete",
                   !.prompt = BuildKnowledgeBasedSystemPrompt(Name, Summary),
                   !.description = Summary])
        /\ UNCHANGED past
     \/ /\ SetCall(c, Throw(call))
        /\ past' = [past EXCEPT !.failed = TRUE]
  /\ UNCHANGED <<now, pcache, personality, customInstructions, assistantName>>
  /\ UNCHANGED <<turnVars, knowledgeVars, functionVars, itemVars>>

\* PersonalityRepository.save 133: every row is deleted; the error of the
\* request is not looked at.
DeleteRows(c) ==
  /\ calls[c].pc = "save_delete"
  /\ personality' \in {<<>>, personality}
  /\ SetCall(c, [calls[c] EXCEPT !.pc = "save_insert"])
  /\ UNCHANGED <<now, pcache, customInstructions, assistantName, past>>
  /\ UNCHANGED <<turnVars, knowledgeVars, functionVars, itemVars>>

\* PersonalityRepository.save 135-147: the insert.  buildPersonality then
\* caches the prompt and returns it (104-106, 125-127, 151-153);
\* setPersonality returns nothing (161-162).
InsertRow(c) ==
  /\ calls[c].pc = "save_insert"
  /\ LET call == calls[c]
         followed == call.op = "set" /\ call.alone
         saved == [call EXCEPT !.inserted = @ + 1]
     IN \/ /\ personality' = Append(personality, NewRow(call.prompt))
           /\ past' = [past EXCEPT
                 !.saves = @ + 1, !.lastSaved = past.saves + 1,
                 !.afterSet = IF followed THEN call.prompt ELSE NoPrompt,
                 !.stale = IF followed THEN call.cached ELSE NoPrompt]
           /\ IF call.op = "set"
              THEN SetCall(c, Return(saved, NoPrompt)) /\ UNCHANGED pcache
              ELSE /\ SetCall(c, Return(saved, call.prompt))
                   /\ pcache' = CacheSet(call.prompt, now)
        \/ /\ SetCall(c, Throw(call))
           /\ past' = [past EXCEPT !.failed = TRUE]
           /\ UNCHANGED <<pcache, personality>>
  /\ UNCHANGED <<now, customInstructions, assistantName>>
  /\ UNCHANGED <<turnVars, knowledgeVars, functionVars, itemVars>>

\* Time passes.
Tick ==
  /\ now < MaxTime
  /\ now' = now + 1
  /\ UNCHANGED <<pcache, personality, calls, called, customInstructions, assistantName, past>>
  /\ UNCHANGED <<turnVars, knowledgeVars, functionVars, itemVars>>

\* One of the instances, over an empty personality table.
PersonalityInit ==
  /\ TurnInit
  /\ lastSearch = NoSearch
  /\ PersonalityIdle
  /\ FunctionsIdle
  /\ ItemsIdle
  /\ \E i \in Instances :
       /\ knowledge = i.knowledge
       /\ customInstructions = i.customInstructions
       /\ assistantName = i.name

PersonalityNext ==
  \/ Tick
  \/ \E c \in Callers :
       \/ GetPersonality(c) \/ BuildPersonality(c)
       \/ \E p \in SetPrompts : SetPersonality(c, p)
       \/ LoadPersonality(c) \/ SampleKnowledge(c) \/ Summarize(c)
       \/ DeleteRows(c) \/ InsertRow(c)

PersonalitySpec == PersonalityInit /\ [][PersonalityNext]_vars

----
\* The similarity function on its own: KnowledgeRepository.cosineSimilarity
\* (part_007 171-180) applied to any two values.

\* The length of the longest array compared.
MaxDim == 2
\* The numbers an array is made of.
Components == {-1, 0, 2}
\* A value that is no array and no text: a number.
Scalar == [type |-> "number", json |-> "none", value |-> <<>>]

\* The arrays of at most n numbers.
RECURSIVE Arrays(_)
Arrays(n) ==
  IF n = 0 THEN {<<>>}
  ELSE LET shorter == Arrays(n - 1)
       IN shorter \cup {Append(a, x) : a \in {b \in shorter : Len(b) = n - 1},
                                        x \in Components}

\* What cosineSimilarity is called with: arrays, null, a number.
Values == {Vector(a) : a \in Arrays(MaxDim)} \cup {NoEmbedding, Scalar}

\* The number or the exception of a call.
Number(n) == [threw |-> FALSE, value |-> n]
TypeError == [threw |-> TRUE, value |-> 0]

\* Faulty variant: without the Array.isArray guard, `reduce` of a value that
\* is no array is no function.
Cosine_Unguarded(x, y) ==
  IF x.type # "array" \/ y.type # "array" THEN TypeError
  ELSE Number(CosineSimilarity(x.value, y.value))

\* cosineSimilarity 171-180 on any two values: 172 answers 0 unless both
\* are arrays of one length.
Cosine(x, y) ==
  IF x.type # "array" \/ y.type # "array" THEN Number(0)
  ELSE Number(CosineSimilarity(x.value, y.value))

\* The function is called on a pair, and on the pair the other way round.
Compare ==
  /\ similarity.pc = "called"
  /\ similarity' = [similarity EXCEPT !.pc = "done",
                       !.ab = Cosine(similarity.a, similarity.b),
                       !.ba = Cosine(similarity.b, similarity.a)]
  /\ UNCHANGED <<turnVars, knowledgeVars, personalityVars, listing, itemVars>>

\* Any two values.
CosineInit ==
  /\ TurnInit
  /\ knowledge = {}
  /\ lastSearch = NoSearch
  /\ PersonalityIdle
  /\ customInstructions = FALSE
  /\ assistantName = Undefined
  /\ listing = NoListing
  /\ ItemsIdle
  /\ \E a \in Values, b \in Values :
       similarity = [pc |-> "called", a |-> a, b |-> b,
                     ab |-> Number(0), ba |-> Number(0)]

CosineNext == Compare

CosineSpec == CosineInit /\ [][CosineNext]_vars

----
\* The knowledge items as the service writes them: KnowledgeService
\* (part_008: createItem 11-23, updateItem 25-37, deleteItem 39-41) over
\* KnowledgeRepository (part_007: create 10-48, update 65-89, delete 91-98)
\* and AIService.generateEmbedding (229-236).  The calls run one after
\* another, each by its awaits.  Of a row the type, the content and the
\* embedding are kept; the lookup of the parent in create (25-33) reads only.

\* The items created in all.
MaxItems == 2
\* KnowledgeItemInput.type: one type that createItem embeds, one it does not.
ItemTypes == {"document", "folder"}
\* KnowledgeItemInput.content: left out, the empty string, or a text.
Contents == {Undefined, "", "a", "b"}
\* `if (item.content)`: undefined and '' are falsy.
Truthy(content) == content # Undefined /\ content # ""
\* AIService.generateEmbedding 229-236: the vector the collaborator gives for
\* a text.
GenerateEmbedding(text) == Vector(IF text = "a" THEN <<1, 0>> ELSE <<0, 1>>)

\* A row of the table, and the place of a row that delete has removed.
ItemRow(type, content, embedding) ==
  [type |-> type, content |-> content, embedding |-> embedding]
Removed == ItemRow("removed", Undefined, NoEmbedding)

\* A call, at one of its awaits or over.
ItemCall(op, pc, id, type, content) ==
  [op |-> op, pc |-> pc, id |-> id, type |-> type,
   content |-> content,        \* item.content / updates.content
   embedding |-> NoEmbedding,  \* `let embedding`, undefined at first
   result |-> "none",
   before |-> Removed]         \* history: the row as the update found it
ItemIdle == itemCall.pc \in {"idle", "done"}

\* createItem 11-20: the embedding is asked for when the item has a content
\* and is a document or a file.
CreateItem ==
  /\ ItemIdle
  /\ Len(itemRows) < MaxItems
  /\ \E type \in ItemTypes, content \in Contents :
       itemCall' = ItemCall("createItem",
                            IF Truthy(content) /\ type \in {"document", "file"}
                            THEN "embed" ELSE "write",
                            NoId, type, content)
  /\ UNCHANGED itemRows
  /\ UNCHANGED <<turnVars, knowledgeVars, personalityVars, functionVars>>

\* updateItem 25-34: the embedding is asked for when the update has a content.
\* An update without a content changes other fields.
UpdateItem ==
  /\ ItemIdle
  /\ \E id \in 1..Len(itemRows), content \in Contents :
       itemCall' = ItemCall("updateItem", IF Truthy(content) THEN "embed" ELSE "write",
                            id, Undefined, content)
  /\ UNCHANGED itemRows
  /\ UNCHANGED <<turnVars, knowledgeVars, personalityVars, functionVars>>

\* 16-19 / 30-33: generateEmbedding answers, or fails and the failure is
\* logged and the embedding stays undefined.
Embed ==
  /\ itemCall.pc = "embed"
  /\ \/ itemCall' = [itemCall EXCEPT !.pc = "write",
                                     !.embedding = GenerateEmbedding(itemCall.content)]
     \/ itemCall' = [itemCall EXCEPT !.pc = "write"]
  /\ UNCHANGED itemRows
  /\ UNCHANGED <<turnVars, knowledgeVars, personalityVars, functionVars>>

\* KnowledgeRepository.create 10-48: the row is inserted, with the embedding
\* when there is one; an error of the insert is thrown.
RepositoryCreate ==
  /\ itemCall.op = "createItem" /\ itemCall.pc = "write"
  /\ \/ /\ itemRows' = Append(itemRows, ItemRow(itemCall.type, itemCall.content,
                                                itemCall.embedding))
        /\ itemCall' = [itemCall EXCEPT !.pc = "done", !.result = "ok",
                                        !.id = Len(itemRows) + 1]
     \/ /\ itemCall' = [itemCall EXCEPT !.pc = "done", !.result = "Error"]
        /\ UNCHANGED itemRows
  /\ UNCHANGED <<turnVars, knowledgeVars, personalityVars, functionVars>>

\* KnowledgeRepository.update 66-81: the content is written when the update
\* has one (`!== undefined`), the embedding when there is one.
Updated(row, content, embedding) ==
  [row EXCEPT !.content = IF content # Undefined THEN content ELSE @,
              !.embedding = IF embedding # NoEmbedding THEN embedding ELSE @]

\* KnowledgeRepository.update 83-88: the row of that uuid, if there is one,
\* is updated; an error is thrown.
RepositoryUpdate ==
  /\ itemCall.op = "updateItem" /\ itemCall.pc = "write"
  /\ \/ /\ itemRows' =
             IF itemRows[itemCall.id] = Removed THEN itemRows
             ELSE [itemRows EXCEPT ![itemCall.id] =
                     Updated(@, itemCall.content, itemCall.embedding)]
        /\ itemCall' = [itemCall EXCEPT !.pc = "done", !.result = "ok",
                                        !.before = itemRows[itemCall.id]]
     \/ /\ itemCall' = [itemCall EXCEPT !.pc = "done", !.result = "Error"]
        /\ UNCHANGED itemRows
  /\ UNCHANGED <<turnVars, knowledgeVars, personalityVars, functionVars>>

\* deleteItem 39-41 over KnowledgeRepository.delete 91-98: the row is
\* removed; an error is thrown.
DeleteItem ==
  /\ ItemIdle
  /\ \E id \in 1..Len(itemRows) :
       \/ /\ itemRows' = [itemRows EXCEPT ![id] = Removed]
          /\ itemCall' = [ItemCall("deleteItem", "done", id, Undefined, Undefined)
                            EXCEPT !.result = "ok"]
       \/ /\ itemCall' = [ItemCall("deleteItem", "done", id, Undefined, Undefined)
                            EXCEPT !.result = "Error"]
          /\ UNCHANGED itemRows
  /\ UNCHANGED <<turnVars, knowledgeVars, personalityVars, functionVars>>

\* An empty table.
ItemsInit ==
  /\ TurnInit
  /\ knowledge = {}
  /\ lastSearch = NoSearch
  /\ PersonalityIdle
  /\ FunctionsIdle
  /\ ItemsIdle
  /\ customInstructions = FALSE
  /\ assistantName = Undefined

ItemsNext ==
  CreateItem \/ UpdateItem \/ Embed \/ RepositoryCreate \/ RepositoryUpdate \/ DeleteItem

ItemsSpec == ItemsInit /\ [][ItemsNext]_vars

----
\* Properties.

Terminal(e) == e.type \in {"final", "error"}
Last(seq) == seq[Len(seq)]
Succeeded(tr) == tr.result \in {"ok", "final"}
\* Messages persisted as assistant replies to the user message of a turn.
RepliesTo(tr) ==
  {i \in 1..Len(messages) : /\ messages[i].type = "assistant"
                            /\ tr.userMsg # NoId
                            /\ messages[i].parent = RowOf(tr.userMsg)}

\* C1: a stream consumed to completion has yielded exactly one terminal
\* event (`final` or `error`), as its last event, whatever failed, the
\* initialization included.
C1_ExactlyOneTerminal ==
  \A t \in Turns :
    (turns[t].kind = "stream" /\ turns[t].pc = "done") =>
      LET ev == turns[t].events IN
        /\ Len(ev) > 0
        /\ Terminal(Last(ev))
        /\ \A i \in 1..(Len(ev) - 1) : ~Terminal(ev[i])

\* C2: after a successful sendMessage the user and the assistant message of
\* the turn are persisted in its conversation, the assistant message's parent
\* is the user message, and, no other turn having run meanwhile, the message
\* count is 2 higher than at the call.
C2_TurnAtomicity ==
  \A t \in Turns :
    (turns[t].kind = "send" /\ turns[t].result = "ok") =>
      LET tr == turns[t]
          u == RowOf(tr.userMsg)
          a == RowOf(tr.asstMsg)
      IN /\ u # NoId /\ a # NoId
         /\ messages[u].type = "user" /\ messages[u].conv = tr.conv
         /\ messages[a].type = "assistant" /\ messages[a].conv = tr.conv
         /\ messages[a].parent = u
         /\ tr.alone => conversations[tr.conv].messageCount = tr.startCount + 2

\* C3: a sendMessage with neither conversationId nor userId that is over has
\* failed with InvalidInput and has written nothing: no conversation, no
\* message, no personality record.
C3_InvalidInputWritesNothing ==
  \A t \in Turns :
    (/\ turns[t].kind = "send" /\ turns[t].pc = "done"
     /\ InvalidInput(turns[t].conversationId, turns[t].userId)
     /\ turns[t].result = "InvalidInput")
    => turns[t].writes = {}

\* C4 as stated: a turn called with both conversationId and userId is
\* rejected with InvalidInput: it resolves no conversation, persists no
\* message and does not succeed.
C4_BothRejected ==
  \A t \in Turns :
    (turns[t].conversationId # NoId /\ turns[t].userId # NoUser) =>
      /\ turns[t].conv = NoId
      /\ turns[t].userMsg = NoId /\ turns[t].asstMsg = NoId
      /\ ~Succeeded(turns[t])
      /\ (turns[t].kind = "send" /\ turns[t].pc = "done" /\ initialized)
           => turns[t].result = "InvalidInput"

\* C4 amended: a turn called with both conversationId and userId is never
\* rejected as InvalidInput; it runs on the conversation named by
\* conversationId and creates no conversation.
C4_BothUsesConversationId ==
  \A t \in Turns :
    (turns[t].conversationId # NoId /\ turns[t].userId # NoUser) =>
      /\ turns[t].result # "InvalidInput"
      /\ \A i \in 1..Len(turns[t].events) : turns[t].events[i].error # "InvalidInput"
      /\ turns[t].created = 0
      /\ turns[t].conv \in {NoId, turns[t].conversationId}
      /\ turns[t].userMsg # NoId =>
           messages[RowOf(turns[t].userMsg)].conv = turns[t].conversationId

C4_Witness ==
  \E t \in Turns :
    /\ turns[t].conversationId # NoId /\ turns[t].userId # NoUser
    /\ turns[t].pc = "done" /\ Succeeded(turns[t])

\* C5: a sendMessage whose conversationId names no conversation, or a
\* soft-deleted one, fails (with NotFound when the lookup answers) and has
\* persisted no message and created no conversation when it fails.
C5_MissingConversationNotFound ==
  \A t \in Turns :
    (turns[t].kind = "send" /\ turns[t].gone) =>
      /\ turns[t].pc = "done" => turns[t].result \in {"NotFound", "Error"}
      /\ turns[t].pc \in {"idle", "init", "build", "save_delete", "save_insert", "resolve", "done"}
      /\ turns[t].conv = NoId
      /\ turns[t].userMsg = NoId /\ turns[t].asstMsg = NoId
      /\ turns[t].created = 0
      /\ turns[t].writes \subseteq {"personality"}

C5_Witness ==
  \E t \in Turns :
    /\ turns[t].kind = "send" /\ turns[t].gone
    /\ turns[t].conversationId \in 1..Len(conversations)
    /\ turns[t].pc = "done" /\ turns[t].result = "NotFound"

\* C6: a successful sendMessage with only userId has created exactly one
\* conversation, owned by that user, persisted both messages in it and
\* returned its identifier; with a conversationId it has created none.
C6_AutoCreate ==
  \A t \in Turns :
    (turns[t].kind = "send" /\ turns[t].result = "ok") =>
      LET tr == turns[t]
          out == Last(tr.events)
      IN IF tr.conversationId = NoId
         THEN /\ tr.created = 1
              /\ out.type = "return"
              /\ out.conversationId \in 1..Len(conversations)
              /\ conversations[out.conversationId].creator = tr.userId
              /\ tr.userId \in Users
              /\ RowOf(tr.userMsg) # NoId /\ RowOf(tr.asstMsg) # NoId
              /\ messages[RowOf(tr.userMsg)].conv = out.conversationId
              /\ messages[RowOf(tr.asstMsg)].conv = out.conversationId
         ELSE /\ tr.created = 0
              /\ out.conversationId = tr.conversationId

C6_Witness ==
  \E t \in Turns :
    /\ turns[t].kind = "send" /\ turns[t].result = "ok"
    /\ turns[t].conversationId = NoId /\ turns[t].created = 1

\* C7: no iteration of a stream rejects; a stream that has not ended with
\* `final` has ended with exactly one `error` event.
C7_FailureIsErrorEvent ==
  \A t \in Turns :
    (turns[t].kind = "stream" /\ turns[t].pc = "done") =>
      /\ turns[t].result # "rejected"
      /\ turns[t].result # "final" =>
           Cardinality({i \in 1..Len(turns[t].events) : turns[t].events[i].type = "error"}) = 1

\* C8: a stream that has ended with `error` has persisted no assistant
\* message: one exists for the turn only if the stream has ended with `final`.
C8_ErrorPersistsNoAssistant ==
  \A t \in Turns :
    (turns[t].kind = "stream" /\ turns[t].pc = "done"
     /\ (turns[t].asstMsg # NoId \/ RepliesTo(turns[t]) # {}))
    => turns[t].result = "final"

\* C9: a stream whose consumer has stopped before the terminal event has
\* persisted no assistant message and has not changed the message count.
C9_AbandonedPersistsNothing ==
  \A t \in Turns :
    turns[t].pc = "abandoned" =>
      /\ turns[t].asstMsg = NoId
      /\ RepliesTo(turns[t]) = {}
      /\ turns[t].alone =>
           conversations[turns[t].conv].messageCount = turns[t].startCount

C9_Witness ==
  \E t \in Turns :
    /\ turns[t].pc = "abandoned"
    /\ turns[t].userMsg # NoId
    /\ Deltas(turns[t].events) = MaxChunks

\* C10: a stream whose conversation is resolved has `start`, carrying the
\* resolved or created conversation, as its first event; while the consumer
\* has not asked for the event after `start`, no user message is persisted.
C10_StartBeforePersistence ==
  \A t \in Turns :
    (turns[t].kind = "stream" /\ turns[t].conv # NoId) =>
      LET tr == turns[t] IN
        /\ Len(tr.events) >= 1
        /\ tr.events[1] = Event("start", tr.conv, NoId, "none")
        /\ tr.conversationId # NoId => tr.conv = tr.conversationId
        /\ tr.conversationId = NoId => tr.created = 1
        /\ (tr.pc = "yield_start" \/ (tr.pc = "abandoned" /\ Len(tr.events) = 1))
             => (tr.userMsg = NoId /\ "message" \notin tr.writes)

C10_Witness ==
  \E t \in Turns :
    /\ turns[t].kind = "stream" /\ turns[t].pc = "history"
    /\ turns[t].conversationId = NoId /\ turns[t].created = 1
    /\ turns[t].userMsg # NoId

\* C11: a sendMessage whose model call has failed is over with that failure
\* as its outcome; it has returned nothing, no assistant message of the turn
\* is persisted, and, no other turn having run meanwhile, the message count
\* of its conversation is what it was at the call.
C11_ModelFailurePropagates ==
  \A t \in Turns :
    (turns[t].kind = "send" /\ turns[t].result = "ModelError") =>
      LET tr == turns[t] IN
        /\ tr.pc = "done"
        /\ \A i \in 1..Len(tr.events) : tr.events[i].type # "return"
        /\ tr.asstMsg = NoId
        /\ RepliesTo(tr) = {}
        /\ tr.alone => conversations[tr.conv].messageCount = tr.startCount

C11_Witness ==
  \E t \in Turns :
    /\ turns[t].kind = "send" /\ turns[t].result = "ModelError"
    /\ turns[t].userMsg # NoId /\ RowOf(turns[t].userMsg) # NoId

\* Properties of the knowledge search.

Searched == lastSearch.op # "none"
Uuids(rs) == {rs[i].uuid : i \in 1..Len(rs)}
\* The similarity of a stored item to the query.
Similarity(u) == CosineSimilarity(QueryEmbedding, Catalogue[u].embedding.value)
\* The stored items with an array embedding that is similar enough.
Qualifying(threshold) ==
  {u \in knowledge : IsArray(Catalogue[u].embedding) /\ Similarity(u) >= threshold}
\* rs are the n best of the items Q, best first, each with its similarity.
IsTopOf(rs, Q, n) ==
  /\ Len(rs) = Min(n, Cardinality(Q))
  /\ \A i \in 1..Len(rs) : rs[i].uuid \in Q /\ rs[i].score = Similarity(rs[i].uuid)
  /\ \A i, j \in 1..Len(rs) :
       i < j => (rs[i].score >= rs[j].score /\ rs[i].uuid # rs[j].uuid)
  /\ \A u \in Q \ Uuids(rs) : \A i \in 1..Len(rs) : rs[i].score >= Similarity(u)

\* C12: the result of a hybrid search holds no uuid twice; every result of
\* the semantic sub-search, one that the keyword sub-search returned too
\* included, is in it at its semantic position with its semantic score, and
\* the results after them are keyword results the semantic sub-search did
\* not return.
C12_HybridDeduplicates ==
  (Searched /\ lastSearch.type = "hybrid") =>
    LET r == lastSearch.results
        s == lastSearch.semantic
        k == lastSearch.keyword
    IN /\ \A i, j \in 1..Len(r) : r[i].uuid = r[j].uuid => i = j
       /\ \A i \in 1..Len(s) : i <= Len(r) /\ r[i] = s[i]
       /\ \A i \in (Len(s) + 1)..Len(r) :
            /\ \E j \in 1..Len(k) : k[j] = r[i]
            /\ r[i].uuid \notin Uuids(s)

C12_Witness ==
  /\ Searched /\ lastSearch.type = "hybrid"
  /\ \E i \in 1..Len(lastSearch.semantic) : \E j \in 1..Len(lastSearch.keyword) :
       /\ lastSearch.semantic[i].uuid = lastSearch.keyword[j].uuid
       /\ lastSearch.semantic[i].score # lastSearch.keyword[j].score
       /\ i > 1
  /\ Len(lastSearch.results) > Len(lastSearch.semantic)

\* C13: a hybrid search, called through KnowledgeService.search or through
\* searchKnowledge, returns no more results than the limit requested, 0 and
\* odd limits included.
C13_HybridWithinRequestedLimit ==
  (Searched /\ lastSearch.type = "hybrid") =>
    Len(lastSearch.results) <= lastSearch.requested.limit

\* C14: a semantic search that meets no failure returns the `limit` items
\* most similar to the query among all stored items with an embedding whose
\* similarity is at least the threshold, most similar first.
C14_SemanticTopOfAll ==
  (Searched /\ lastSearch.type = "semantic" /\ lastSearch.fail = {}) =>
    IsTopOf(lastSearch.results, Qualifying(lastSearch.threshold), lastSearch.limit)

\* C15: no search throws; a sub-search whose collaborator fails (the
\* embedding or the embedding query for the semantic one, the full-text
\* query for the keyword one) contributes the empty list, and a hybrid search
\* returns what the other sub-search found.
C15_SubSearchFailureContained ==
  Searched =>
    LET semanticFailed == lastSearch.fail \cap {"embedding", "semanticQuery"} # {}
        keywordFailed == "keywordQuery" \in lastSearch.fail
        half == (lastSearch.limit + 1) \div 2
    IN /\ ~lastSearch.threw
       /\ semanticFailed => lastSearch.semantic = <<>>
       /\ keywordFailed => lastSearch.keyword = <<>>
       /\ (lastSearch.type = "hybrid" /\ semanticFailed /\ ~keywordFailed) =>
            /\ Len(lastSearch.results) = Min(half, Cardinality(Matching))
            /\ \A i \in 1..Len(lastSearch.results) :
                 /\ lastSearch.results[i].uuid \in Matching
                 /\ lastSearch.results[i].score = KeywordScore
       /\ (lastSearch.type = "hybrid" /\ keywordFailed /\ ~semanticFailed) =>
            /\ lastSearch.results = lastSearch.semantic
            /\ Uuids(lastSearch.results) \subseteq Qualifying(lastSearch.threshold)

C15_Witness ==
  /\ Searched /\ lastSearch.type = "hybrid"
  /\ lastSearch.fail = {"embedding"}
  /\ Len(lastSearch.results) >= 2

\* C16: a semantic search that meets no collaborator failure and whose query
\* returns every stored embedding does not throw and returns the best items
\* with a well-formed embedding, whatever malformed embeddings (wrong length,
\* no array, no JSON) are stored beside them.
C16_MalformedEmbeddingScoredZero ==
  (/\ Searched /\ lastSearch.type = "semantic" /\ lastSearch.fail = {}
   /\ Cardinality(Embedded) <= 3 * lastSearch.limit)
  => /\ ~lastSearch.threw
     /\ IsTopOf(lastSearch.results, Qualifying(lastSearch.threshold), lastSearch.limit)

\* Properties of the personality service.

Quiet == \A c \in Callers : ~CallActive(calls[c])

\* C17: when personality calls, a build or a set among them, have run one
\* after another and none has thrown, the personality table holds exactly
\* one row: the one the last build or set inserted.
C17_SingletonAfterSequence ==
  (Quiet /\ ~past.overlap /\ ~past.failed /\ past.lastSaved # 0) =>
    /\ Len(personality) = 1
    /\ personality[1].id = past.lastSaved

\* C18: the personality table never holds more than one row, whatever
\* calls overlap.
C18_AtMostOneRecord == Len(personality) <= 1

\* C19: a getPersonality returns the cached value, reading nothing, exactly
\* when the cache held an entry at the call that had not outlived its
\* time-to-live; otherwise it reads the personality table once, and when that
\* holds a row it caches and returns the latest row's prompt without sampling,
\* generating or saving, and it builds only when the table holds none.
C19_CacheThenStoreThenBuild ==
  \A c \in Callers :
    calls[c].op = "get" =>
      LET call == calls[c]
          fresh == call.populated /\ ~call.expired
      IN /\ fresh <=> call.path = "cache"
         /\ call.path = "cache" =>
              /\ call.pc = "done" /\ call.result = call.cached
              /\ call.reads = 0 /\ call.samples = 0 /\ call.generations = 0
         /\ (~fresh /\ call.pc # "load") => call.reads = 1
         /\ call.path = "persisted" <=> call.found = "row"
         /\ call.path = "persisted" =>
              /\ call.pc = "done" /\ call.result \notin {NoPrompt, "error"}
              /\ call.samples = 0 /\ call.generations = 0 /\ call.prompt = NoPrompt
         /\ call.path = "build" <=> call.found = "none"
         /\ (call.samples > 0 \/ call.generations > 0 \/ call.prompt # NoPrompt)
              => call.path = "build"

C19_Witness ==
  \E c \in Callers :
    /\ calls[c].op = "get" /\ calls[c].pc = "done"
    /\ calls[c].populated /\ calls[c].expired
    /\ calls[c].path = "persisted"
    /\ calls[c].result # calls[c].cached

\* C20: a setPersonality samples no corpus and generates no text; the
\* getPersonality that is the next call after a setPersonality that ran
\* alone, and that runs alone itself, returns the prompt that was set, not
\* from the cache.
C20_SetThenGet ==
  \A c \in Callers :
    /\ calls[c].op = "set" => (calls[c].samples = 0 /\ calls[c].generations = 0)
    /\ (/\ calls[c].op = "get" /\ calls[c].pc = "done" /\ calls[c].result # "error"
        /\ calls[c].expect # NoPrompt /\ calls[c].alone)
       => /\ calls[c].result = calls[c].expect
          /\ calls[c].path = "persisted"

C20_Witness ==
  \E c \in Callers :
    /\ calls[c].op = "get" /\ calls[c].pc = "done" /\ calls[c].alone
    /\ calls[c].expect # NoPrompt /\ calls[c].result = calls[c].expect
    /\ calls[c].stale \notin {NoPrompt, calls[c].expect}

\* A call that is over without having thrown.
Completed(call) == call.pc = "done" /\ call.result # "error"
\* A call that has run buildPersonality: called as such, or by getPersonality.
Built(call) == call.op = "build" \/ call.path = "build"

\* C21 as stated: when a buildPersonality or setPersonality that ran alone
\* has thrown, the personality table is what it was at the call: the record
\* persisted before is still there, unchanged.
C21_FailedReplacementKeepsRecord ==
  \A c \in Callers :
    (/\ calls[c].op \in {"build", "set"}
     /\ calls[c].pc = "done" /\ calls[c].result = "error"
     /\ calls[c].alone)
    => personality = calls[c].before

\* C22: a buildPersonality that has returned took one path.  With configured
\* instructions the prompt is those instructions and the profile the custom
\* one, and neither the corpus nor the model was asked; else with an empty
\* corpus the prompt is the generic one for the configured name, the profile
\* the general purpose one, and the model was not asked; else the model was
\* asked once, over the items created last, at most SampleSize of them.  It
\* has inserted one row, and the cache holds the value returned.
C22_BuildPaths ==
  \A c \in Callers :
    LET call == calls[c] IN
    (Built(call) /\ Completed(call)) =>
      /\ customInstructions =>
           /\ call.result = "custom"
           /\ call.description = "Custom configured assistant"
           /\ call.samples = 0 /\ call.generations = 0
      /\ (~customInstructions /\ knowledge = {}) =>
           /\ call.result = BuildGenericSystemPrompt(Name)
           /\ \A n \in Names :
                n # assistantName => call.result # BuildGenericSystemPrompt(
                                       IF n = Undefined THEN "AI Assistant" ELSE n)
           /\ call.description = "General purpose AI assistant"
           /\ call.samples = 1 /\ call.generations = 0
      /\ (~customInstructions /\ knowledge # {}) =>
           /\ call.samples = 1 /\ call.generations = 1
           /\ call.sampled \subseteq knowledge
           /\ Cardinality(call.sampled) = Min(SampleSize, Cardinality(knowledge))
           /\ \A i \in call.sampled : \A j \in knowledge \ call.sampled : j < i
      /\ call.inserted = 1
      /\ pcache # NoEntry /\ pcache.value = call.result

C22_Witness ==
  \E c \in Callers :
    /\ calls[c].op = "build" /\ Completed(calls[c])
    /\ Cardinality(knowledge) > SampleSize
    /\ Cardinality(calls[c].sampled) = SampleSize
    /\ calls[c].generations = 1

\* The squared magnitude of an array.
Magnitude2(a) == Dot(a, a)

\* C25: cosineSimilarity never raises; its value for a pair is its value for
\* the pair the other way round; and its value is 0 when a value is no
\* array, when an array is empty, when the lengths differ and when an array
\* has magnitude 0.
C25_SimilaritySymmetricZeroTotal ==
  similarity.pc = "done" =>
    LET a == similarity.a
        b == similarity.b
    IN /\ ~similarity.ab.threw /\ ~similarity.ba.threw
       /\ similarity.ab.value = similarity.ba.value
       /\ (\/ a.type # "array" \/ b.type # "array"
           \/ a.value = <<>> \/ b.value = <<>>
           \/ Len(a.value) # Len(b.value)
           \/ Magnitude2(a.value) = 0 \/ Magnitude2(b.value) = 0)
          => similarity.ab.value = 0

C25_Witness ==
  /\ similarity.pc = "done"
  /\ similarity.a = Vector(<<2, 0>>) /\ similarity.b = Vector(<<2, -1>>)
  /\ similarity.ab.value = 89 /\ similarity.ba.value = 89

\* The messages of a conversation among the first n rows, oldest first.
ConversationUpTo(c, n) == SortAsc({i \in 1..n : messages[i].conv = c})
\* The last n elements of a sequence.
LastOf(seq, n) == SubSeq(seq, Len(seq) - Min(n, Len(seq)) + 1, Len(seq))

\* C23 as stated: the messages a turn has loaded are the most recent ones
\* of its conversation, at most HistoryLimit of them, oldest first; the last
\* of them is the user message the turn has just inserted, and the prior
\* turns passed to the model are the loaded messages without it.
C23_PriorTurnsMostRecent ==
  \A t \in Turns :
    turns[t].loaded # <<>> =>
      LET tr == turns[t]
          mine == RowOf(tr.userMsg)
          all == ConversationUpTo(tr.conv, mine)
      IN /\ tr.loaded = LastOf(all, HistoryLimit)
         /\ Last(tr.loaded) = mine
         /\ tr.prior = SelectSeq(tr.loaded, LAMBDA i : i # mine)

\* C26 as stated: a getConversation that has answered has returned every
\* message persisted in the conversation, oldest first; for an id that names
\* no conversation it has not answered.
C26_GetConversationReturnsAll ==
  (listing # NoListing /\ listing.pc = "done") =>
    /\ listing.result = "ok" =>
         /\ Len(listing.messages) = listing.persisted
         /\ \A i \in 1..Len(listing.messages) :
              messages[listing.messages[i]].conv = listing.conversationId
         /\ \A i, j \in 1..Len(listing.messages) :
              i < j => listing.messages[i] < listing.messages[j]
    /\ listing.conversationId = MissingId => listing.result \in {"NotFound", "Error"}

\* C24 as stated, its second half: a turn that has succeeded and that no
\* other turn has overlapped has raised the message count of its
\* conversation by exactly 2.
C24_NonOverlappingTurnsCountTwo ==
  \A t \in Turns :
    (Succeeded(turns[t]) /\ turns[t].alone) =>
      conversations[turns[t].conv].messageCount = turns[t].startCount + 2

\* C27: an initialized instance has a personality record and runs no step
\* of init(); while the instance is not initialized (no init() has resolved
\* yet, or every one has failed) a turn is in init() or has ended there: it
\* has resolved no conversation, and a call whose init() has failed has left
\* the instance uninitialized.
C27_InitOnce ==
  /\ initialized => persRows >= 1
  /\ \A t \in Turns :
       LET tr == turns[t] IN
       /\ (tr.pc = "init" \/ tr.ctx \in {"init_get", "init_catch"}) => ~initialized
       /\ (Active(tr) /\ ~initialized) =>
            tr.pc \in {"init", "build", "save_delete", "save_insert"}
       /\ ~initialized => tr.conv = NoId
       /\ (tr.kind = "stream" /\ tr.result = "rejected") => ~initialized

C27_Witness ==
  /\ initialized /\ persRows = 1 /\ started = MaxTurns
  /\ \E t \in Turns : turns[t].pc = "resolve" /\ turns[t].writes = {}

\* The contents of the `delta` events of a sequence, one after another.
RECURSIVE DeltaContents(_)
DeltaContents(events) ==
  IF events = <<>> THEN <<>>
  ELSE (IF Head(events).type = "delta" THEN Head(events).content ELSE <<>>)
         \o DeltaContents(Tail(events))

\* The content of the `final` of a stream is that of its deltas, in order,
\* and that of the assistant row the turn has inserted under the uuid that
\* `final` carries.
FinalContentAgrees(tr) ==
  LET final == Last(tr.events) IN
  /\ final.type = "final"
  /\ final.content = DeltaContents(tr.events)
  /\ final.messageId = tr.asstMsg
  /\ RowOf(final.messageId) # NoId
  /\ messages[RowOf(final.messageId)].type = "assistant"
  /\ tr.asstRow.content = final.content

\* C28 as stated: a stream that has ended with `final` has given in it the
\* content of its deltas and of the persisted assistant message, and has
\* emitted it after the insert of that message and after the update of the
\* message count: with no other turn meanwhile the count is 2 higher than
\* at the call.
C28_FinalAfterPersistence ==
  \A t \in Turns :
    (turns[t].kind = "stream" /\ turns[t].result = "final") =>
      /\ FinalContentAgrees(turns[t])
      /\ turns[t].alone =>
           conversations[turns[t].conv].messageCount = turns[t].startCount + 2

\* The keys of a metadata object, and the value under a key.
Has(metadata, key) == \E pair \in metadata : pair[1] = key
Get(metadata, key) == (CHOOSE pair \in metadata : pair[1] = key)[2]

\* A result the hybrid search of a turn may give: a stored item found by
\* its similarity to the query, 0.7 at least, or by the keyword query.
TurnResult(r) ==
  /\ r.uuid \in knowledge
  /\ \/ r.uuid \in Matching /\ r.score = KeywordScore
     \/ /\ IsArray(Catalogue[r.uuid].embedding)
        /\ r.score = CosineSimilarity(QueryEmbedding, Catalogue[r.uuid].embedding.value)
        /\ r.score >= TurnSearchThreshold

\* C29: in a turn that has succeeded, the results are distinct stored items
\* that the hybrid search with threshold 0.7 may give, at most 3 of them; the
\* system message passed to the model is the personality prompt followed by
\* the knowledge block exactly when there is a result, and the personality
\* prompt alone when there is none; the metadata of the assistant message
\* has knowledgeUsed true exactly when there is a result, and
\* knowledgeItemCount is the number of results.
C29_KnowledgeFactsAgree ==
  \A t \in Turns :
    Succeeded(turns[t]) =>
      LET tr == turns[t]
          n == Len(tr.knowledgeResults)
          personalityPrompt == <<Line("personality.systemPrompt", 0)>>
          metadata == tr.asstRow.metadata
      IN /\ n <= 3
         /\ \A i \in 1..n : TurnResult(tr.knowledgeResults[i])
         /\ \A i, j \in 1..n :
              i # j => tr.knowledgeResults[i].uuid # tr.knowledgeResults[j].uuid
         /\ Len(tr.system) >= 1 /\ SubSeq(tr.system, 1, 1) = personalityPrompt
         /\ (Len(tr.system) > 1) = (n > 0)
         /\ n > 0 => /\ Len(tr.system) = n + 2
                     /\ \A i \in 1..n : tr.system[i + 2].uuid = tr.knowledgeResults[i].uuid
         /\ n = 0 => tr.system = personalityPrompt
         /\ Has(metadata, "knowledgeUsed") /\ Has(metadata, "knowledgeItemCount")
         /\ Get(metadata, "knowledgeUsed") = (n > 0)
         /\ Get(metadata, "knowledgeItemCount") = n

C29_Witness ==
  \E t \in Turns :
    /\ Succeeded(turns[t])
    /\ Len(turns[t].knowledgeResults) = 3
    /\ Len(turns[t].system) = 5
    /\ Get(turns[t].asstRow.metadata, "knowledgeUsed")

C31_SearchFailureDoesNotFailTurn ==
  \A t \in Turns :
    LET tr == turns[t]
        semanticFailed == tr.failed \cap {"embedding", "semanticQuery"} # {}
        keywordFailed == "keywordQuery" \in tr.failed
        personalityPrompt == <<Line("personality.systemPrompt", 0)>>
    IN /\ "search" \notin tr.failed
       /\ tr.failed # {} => tr.loaded # <<>>
       /\ (semanticFailed /\ keywordFailed) =>
            /\ tr.knowledgeResults = <<>>
            /\ tr.system \in {<<>>, personalityPrompt}
            /\ tr.asstRow # NoRow =>
                 /\ Get(tr.asstRow.metadata, "knowledgeUsed") = FALSE
                 /\ Get(tr.asstRow.metadata, "knowledgeItemCount") = 0
            /\ Succeeded(tr) => tr.system = personalityPrompt /\ tr.asstRow # NoRow

C31_Witness ==
  \E t \in Turns :
    /\ knowledge = TurnKnowledge
    /\ turns[t].failed = {"embedding", "keywordQuery"}
    /\ turns[t].kind = "stream" /\ turns[t].result = "final"
    /\ Get(turns[t].asstRow.metadata, "knowledgeItemCount") = 0

\* C32: every result of a semantic or hybrid search has a score of at least
\* the threshold requested, the results that come from the keyword
\* sub-search of a hybrid search included.
C32_ResultsReachThreshold ==
  (Searched /\ lastSearch.type \in {"semantic", "hybrid"}) =>
    \A i \in 1..Len(lastSearch.results) :
      lastSearch.results[i].score >= lastSearch.requested.threshold

\* C33: no stored knowledge item without a content (absent or empty)
\* carries an embedding, whatever createItem, updateItem and deleteItem
\* calls have run and whether the embedding collaborator has failed.
C33_NoContentNoEmbedding ==
  \A i \in 1..Len(itemRows) :
    (itemRows[i] # Removed /\ ~Truthy(itemRows[i].content)) =>
      itemRows[i].embedding = NoEmbedding

\* C34: once an updateItem has changed the content of an item, the embedding
\* of the item is the embedding of the new content or is absent, also when
\* the embedding collaborator has failed during the update.
C34_NoStaleEmbedding ==
  (/\ itemCall.op = "updateItem" /\ itemCall.pc = "done" /\ itemCall.result = "ok"
   /\ itemCall.before # Removed
   /\ itemCall.content # Undefined
   /\ itemCall.content # itemCall.before.content) =>
    LET row == itemRows[itemCall.id] IN
    /\ row.content = itemCall.content
    /\ \/ row.embedding = NoEmbedding
       \/ Truthy(row.content) /\ row.embedding = GenerateEmbedding(row.content)

\* C35: a getPersonality that starts when a personality record is persisted
\* and no other call is running, and during which no other call starts,
\* returns the prompt of the persisted record, whatever calls have
\* overlapped before it.
C35_CacheCoherent ==
  \A c \in Callers :
    (/\ calls[c].op = "get" /\ Completed(calls[c])
     /\ calls[c].alone /\ calls[c].before # <<>>) =>
      calls[c].result = Latest.systemPrompt

\* The messages persisted in a conversation.
Persisted(c) == {i \in 1..Len(messages) : messages[i].conv = c}

\* C36: under any interleaving of turns on a conversation, its message
\* count is even, is at most the number of messages persisted in it, and
\* never decreases.
C36_CountEvenBoundedMonotone ==
  [][\A c \in 1..Len(conversations) :
       /\ conversations'[c].messageCount % 2 = 0
       /\ conversations'[c].messageCount <= Cardinality(Persisted(c)')
       /\ conversations'[c].messageCount >= conversations[c].messageCount]_vars

\* C37: the prior turns passed to the model hold only messages persisted
\* before the user message of the turn, and so never that message itself,
\* also when the turn overlaps another turn on the conversation.
C37_OwnMessageOnce ==
  \A t \in Turns :
    turns[t].loaded # <<>> =>
      LET own == RowOf(turns[t].userMsg) IN
      \A i \in 1..Len(turns[t].prior) :
        turns[t].prior[i] # own /\ turns[t].prior[i] < own

\* C38: no message is persisted into a conversation that is soft-deleted at
\* the write, no update of the message count is applied to one, and no
\* conversation and no message is ever removed.
C38_NoWriteToDeleted ==
  [][/\ Len(messages') >= Len(messages)
     /\ SubSeq(messages', 1, Len(messages)) = messages
     /\ \A i \in (Len(messages) + 1)..Len(messages') :
          ~conversations[messages'[i].conv].deleted
     /\ Len(conversations') >= Len(conversations)
     /\ \A c \in 1..Len(conversations) :
          conversations'[c].messageCount # conversations[c].messageCount =>
            ~conversations[c].deleted]_vars

\* C39: a turn that has failed after its conversation was resolved has
\* persisted no message in it, and the message count of the conversation is
\* what it was at the call (no other turn having run meanwhile).
C39_FailedTurnLeavesNothing ==
  \A t \in Turns :
    LET tr == turns[t] IN
    (tr.pc = "done" /\ ~Succeeded(tr) /\ tr.conv # NoId) =>
      /\ tr.userMsg = NoId /\ tr.asstMsg = NoId
      /\ "message" \notin tr.writes
      /\ tr.alone => conversations[tr.conv].messageCount = tr.startCount

====
